---- MODULE Spec2Model ----
(***************************************************************************)
(* Basis: the rule-driven grid simulation (RuleManager, GridPhysics,       *)
(* Player, Pushable, the Game scene and the riddle modal of UIManager).    *)
(*                                                                         *)
(* Six specifications share the variables:                                 *)
(*   SpecPhysics  GridPhysics.canMoveTo / canPush queried over bounded     *)
(*                entity registries and every state of the rules read      *)
(*   Spec         one level session: input, pushes, tweens, riddles,       *)
(*                delayed calls, rule effects, shuffles                    *)
(*   SpecRules    the public methods of one RuleManager called in any      *)
(*                order with known, differently cased and unknown ids      *)
(*   SpecTypes    GridPhysics queried while <TYPE>_IS_AIR rules change     *)
(*   SpecMoves    Player and Pushable moves with fair tween completion     *)
(*   SpecModal    the riddle modal under every order of answer clicks,     *)
(*                ESC and the delayed closes                               *)
(***************************************************************************)
EXTENDS Integers, Sequences, FiniteSets, Bags, TLC

(***************************************************************************)
(* Bounds of the model                                                     *)
(***************************************************************************)
gridWidth == 4
gridHeight == 2
\* delayed calls and modal tweens in flight at once
MaxPending == 1
\* 'down' listeners on the ESC key at once
MaxEscListeners == 1
\* records of RuleManager.history in SpecRules
MaxHistory == 2
\* flash tweens of transformWallType still running when a rule is applied
MaxFlashes == 1

\* UIManager.maxLives
maxLives == 3

VARIABLES
    rules,        \* RuleManager.rules
    history,      \* RuleManager.history
    walls,        \* Game.walls = GridPhysics.walls (registered by reference)
    gates,        \* Game.gates = GridPhysics.gates
    pushables,    \* Game.pushables = GridPhysics.pushables
    friend,       \* GridPhysics.friend, <<>> when null
    player,       \* the Player entity
    lastResult,   \* arguments and result of the latest query of SpecPhysics
    ui,           \* the UIManager fields of the riddle modal
    timers,       \* scene.time delayed calls not yet fired (a bag)
    tweens,       \* modal close tweens not yet complete (a bag)
    push,         \* the promise chain of Player.executePush
    hasWon,       \* Game.hasWon
    gateOpened,   \* per gate, the number of onGateOpened callbacks
    sockets,      \* Game.sockets
    specialWalls, \* Game.specialWalls
    specialRegistry, \* the special walls GridPhysics holds for collision
    activeEffects,   \* RuleManager.activeEffects: the effect stored per key
    wallTweens,      \* flash tweens of Game.transformWallType in flight (a bag)
    otherPush        \* the move tween of a Pushable.push made by another caller

physVars == <<walls, gates, pushables, friend, player>>
ruleVars == <<rules, history>>
sessionVars == <<ui, timers, tweens, push, hasWon, gateOpened>>
socketVars == <<sockets, specialWalls, specialRegistry>>
vars == <<rules, history, walls, gates, pushables, friend, player, lastResult,
          ui, timers, tweens, push, hasWon, gateOpened, sockets, specialWalls,
          specialRegistry, activeEffects, wallTweens, otherPush>>

(***************************************************************************)
(* RuleManager                                                             *)
(***************************************************************************)
WallTypes == {"brick", "wood", "iron", "steel", "emerald", "gold", "diamond",
              "lapis", "quartz"}

RuleIds == {"WALL_IS_AIR", "BRICK_IS_AIR", "WOOD_IS_AIR", "IRON_IS_AIR",
            "STEEL_IS_AIR", "EMERALD_IS_AIR", "GOLD_IS_AIR", "DIAMOND_IS_AIR",
            "LAPIS_IS_AIR", "QUARTZ_IS_AIR",
            "STEEL_TO_EMERALD", "IRON_TO_STEEL", "STEEL_TO_IRON",
            "WOOD_TO_IRON", "IRON_TO_WOOD", "LAPIS_TO_DIAMOND", "GOLD_TO_LAPIS",
            "BRICK_SHUFFLE", "WOOD_SHUFFLE", "IRON_SHUFFLE", "STEEL_SHUFFLE",
            "PLAYER_IS_FAST", "PLAYER_IS_SLOW", "PUSH_IS_DISABLED",
            "GATE_IS_OPEN", "FRIEND_IS_GOAL", "PLAYER_IS_GHOST"}

\* the rule table of the constructor: everything false but FRIEND_IS_GOAL
DefaultRules == [r \in RuleIds |-> (r = "FRIEND_IS_GOAL")]

\* String.prototype.toUpperCase on the identifiers the model passes around
toUpperCase(s) ==
    CASE s = "wall_is_air" -> "WALL_IS_AIR"
      [] s = "player_is_fast" -> "PLAYER_IS_FAST"
      [] s = "gate_is_open" -> "GATE_IS_OPEN"
      [] s = "Brick_Is_Air" -> "BRICK_IS_AIR"
      [] s = "wall_is_lava" -> "WALL_IS_LAVA"
      [] OTHER -> s

\* String.prototype.toLowerCase on the same identifiers
toLowerCase(s) ==
    CASE s = "WALL_IS_AIR" -> "wall_is_air"
      [] s = "PLAYER_IS_FAST" -> "player_is_fast"
      [] s = "GATE_IS_OPEN" -> "gate_is_open"
      [] s = "Brick_Is_Air" -> "brick_is_air"
      [] s = "BRICK_IS_AIR" -> "brick_is_air"
      [] s = "WALL_IS_LAVA" -> "wall_is_lava"
      [] OTHER -> s

isRuleActive_caseSensitive(ruleId) ==
    IF ruleId \in DOMAIN rules THEN rules[ruleId] ELSE FALSE

isRuleActive(ruleId) ==
    LET normalizedId == toUpperCase(ruleId)
        legacyId == toLowerCase(ruleId)
    IN  IF normalizedId \in DOMAIN rules THEN rules[normalizedId]
        ELSE IF legacyId = "wall_is_air" THEN rules["WALL_IS_AIR"]
        ELSE IF legacyId = "player_is_fast" THEN rules["PLAYER_IS_FAST"]
        ELSE FALSE

(***************************************************************************)
(* GridPhysics                                                             *)
(***************************************************************************)
\* Array.prototype.find over a registry: the least of the indices of the
\* elements that match, 0 for none
FindIndex(matching) ==
    IF matching = {} THEN 0
    ELSE CHOOSE i \in matching : \A j \in matching : i <= j

\* GridPhysics.registerSpecialWalls and removeSpecialWall, which Game calls:
\* the registry holds every special wall of the level until it is removed
registerSpecialWalls(ws) == 1..Len(ws)
removeSpecialWall(registry, wall) == registry \ {wall}

\* a special wall of the registry takes part in wall collision as a wall does
isSpecialWallAt(gridX, gridY) ==
    \E i \in specialRegistry :
        specialWalls[i].gridX = gridX /\ specialWalls[i].gridY = gridY

isWallAt(gridX, gridY) ==
    \/ \E i \in 1..Len(walls) : walls[i].gridX = gridX /\ walls[i].gridY = gridY
    \/ isSpecialWallAt(gridX, gridY)

getGateAt(gridX, gridY) ==
    FindIndex({i \in 1..Len(gates) :
                 gates[i].gridX = gridX /\ gates[i].gridY = gridY /\ ~gates[i].isOpen})

getPushableAt(gridX, gridY) ==
    FindIndex({i \in 1..Len(pushables) :
                 pushables[i].gridX = gridX /\ pushables[i].gridY = gridY})

\* Friend.isAt on the registered friend
friendIsAt(gridX, gridY) ==
    /\ Len(friend) = 1
    /\ friend[1].gridX = gridX
    /\ friend[1].gridY = gridY

\* the result objects, padded to one shape
PushResult(allowed, reason, targetX, targetY) ==
    [allowed |-> allowed, reason |-> reason, targetX |-> targetX, targetY |-> targetY]

MoveResult(allowed, action, reason, gate, pushable, dirX, dirY, targetX, targetY) ==
    [allowed |-> allowed, action |-> action, reason |-> reason, gate |-> gate,
     pushable |-> pushable, dirX |-> dirX, dirY |-> dirY,
     targetX |-> targetX, targetY |-> targetY]

Blocked(reason) == MoveResult(FALSE, "blocked", reason, 0, 0, 0, 0, -1, -1)

\* canPush without the check for another pushable in the target cell
canPush_noStep(pushableX, pushableY, dirX, dirY) ==
    LET targetX == pushableX
        targetY == pushableY
    IN  IF targetX < 0 \/ targetX >= gridWidth \/ targetY < 0 \/ targetY >= gridHeight
        THEN PushResult(FALSE, "out_of_bounds", -1, -1)
        ELSE PushResult(TRUE, "none", targetX, targetY)

canPush_chain(pushableX, pushableY, dirX, dirY) ==
    LET targetX == pushableX + dirX
        targetY == pushableY + dirY
        wallIsAir == isRuleActive("WALL_IS_AIR")
        allGatesOpen == isRuleActive("GATE_IS_OPEN")
        gate == getGateAt(targetX, targetY)
    IN  IF targetX < 0 \/ targetX >= gridWidth \/ targetY < 0 \/ targetY >= gridHeight
        THEN PushResult(FALSE, "out_of_bounds", -1, -1)
        ELSE IF ~wallIsAir /\ isWallAt(targetX, targetY)
        THEN PushResult(FALSE, "wall", -1, -1)
        ELSE IF gate # 0 /\ ~gates[gate].isOpen /\ ~allGatesOpen
        THEN PushResult(FALSE, "gate", -1, -1)
        ELSE PushResult(TRUE, "none", targetX, targetY)

canPush(pushableX, pushableY, dirX, dirY) ==
    LET targetX == pushableX + dirX
        targetY == pushableY + dirY
        wallIsAir == isRuleActive("WALL_IS_AIR")
        allGatesOpen == isRuleActive("GATE_IS_OPEN")
        gate == getGateAt(targetX, targetY)
    IN  IF targetX < 0 \/ targetX >= gridWidth \/ targetY < 0 \/ targetY >= gridHeight
        THEN PushResult(FALSE, "out_of_bounds", -1, -1)
        ELSE IF ~wallIsAir /\ isWallAt(targetX, targetY)
        THEN PushResult(FALSE, "wall", -1, -1)
        ELSE IF gate # 0 /\ ~gates[gate].isOpen /\ ~allGatesOpen
        THEN PushResult(FALSE, "gate", -1, -1)
        ELSE IF getPushableAt(targetX, targetY) # 0
        THEN PushResult(FALSE, "another_pushable", -1, -1)
        ELSE PushResult(TRUE, "none", targetX, targetY)

\* canMoveTo with the ghost override placed before the bounds check
canMoveTo_ghostFirst(fromX, fromY, toX, toY, entityType) ==
    LET isGhost == isRuleActive("PLAYER_IS_GHOST")
        wallIsAir == isRuleActive("WALL_IS_AIR")
        allGatesOpen == isRuleActive("GATE_IS_OPEN")
        gate == getGateAt(toX, toY)
        friendIsGoal == isRuleActive("FRIEND_IS_GOAL")
        pushDisabled == isRuleActive("PUSH_IS_DISABLED")
        pushable == getPushableAt(toX, toY)
        dirX == toX - fromX
        dirY == toY - fromY
        pushResult == canPush(toX, toY, dirX, dirY)
    IN  IF ~isGhost /\ (toX < 0 \/ toX >= gridWidth \/ toY < 0 \/ toY >= gridHeight)
        THEN Blocked("out_of_bounds")
        ELSE IF ~isGhost /\ ~wallIsAir /\ isWallAt(toX, toY)
        THEN Blocked("wall")
        ELSE IF ~isGhost /\ gate # 0 /\ ~gates[gate].isOpen /\ ~allGatesOpen
        THEN MoveResult(FALSE, "gate", "none", gate, 0, 0, 0, -1, -1)
        ELSE IF friendIsAt(toX, toY) /\ friendIsGoal
        THEN MoveResult(TRUE, "win", "none", 0, 0, 0, 0, -1, -1)
        ELSE IF ~isGhost /\ pushable # 0 /\ entityType = "player"
        THEN IF pushDisabled
             THEN Blocked("push_disabled")
             ELSE IF pushResult.allowed
             THEN MoveResult(TRUE, "push", "none", 0, pushable, dirX, dirY,
                             pushResult.targetX, pushResult.targetY)
             ELSE Blocked("push_failed")
        ELSE MoveResult(TRUE, "move", "none", 0, 0, 0, 0, -1, -1)

\* canMoveTo whose gate check forgets the ghost override
canMoveTo_ghostGate(fromX, fromY, toX, toY, entityType) ==
    LET isGhost == isRuleActive("PLAYER_IS_GHOST")
        wallIsAir == isRuleActive("WALL_IS_AIR")
        allGatesOpen == isRuleActive("GATE_IS_OPEN")
        gate == getGateAt(toX, toY)
        friendIsGoal == isRuleActive("FRIEND_IS_GOAL")
        pushDisabled == isRuleActive("PUSH_IS_DISABLED")
        pushable == getPushableAt(toX, toY)
        dirX == toX - fromX
        dirY == toY - fromY
        pushResult == canPush(toX, toY, dirX, dirY)
    IN  IF toX < 0 \/ toX >= gridWidth \/ toY < 0 \/ toY >= gridHeight
        THEN Blocked("out_of_bounds")
        ELSE IF ~isGhost /\ ~wallIsAir /\ isWallAt(toX, toY)
        THEN Blocked("wall")
        ELSE IF gate # 0 /\ ~gates[gate].isOpen /\ ~allGatesOpen
        THEN MoveResult(FALSE, "gate", "none", gate, 0, 0, 0, -1, -1)
        ELSE IF friendIsAt(toX, toY) /\ friendIsGoal
        THEN MoveResult(TRUE, "win", "none", 0, 0, 0, 0, -1, -1)
        ELSE IF ~isGhost /\ pushable # 0 /\ entityType = "player"
        THEN IF pushDisabled
             THEN Blocked("push_disabled")
             ELSE IF pushResult.allowed
             THEN MoveResult(TRUE, "push", "none", 0, pushable, dirX, dirY,
                             pushResult.targetX, pushResult.targetY)
             ELSE Blocked("push_failed")
        ELSE MoveResult(TRUE, "move", "none", 0, 0, 0, 0, -1, -1)

canMoveTo_anyTypeAir(fromX, fromY, toX, toY, entityType) ==
    LET isGhost == isRuleActive("PLAYER_IS_GHOST")
        wallIsAir == \/ isRuleActive("WALL_IS_AIR")
                     \/ isRuleActive("BRICK_IS_AIR")
                     \/ isRuleActive("WOOD_IS_AIR")
                     \/ isRuleActive("IRON_IS_AIR")
        allGatesOpen == isRuleActive("GATE_IS_OPEN")
        gate == getGateAt(toX, toY)
        friendIsGoal == isRuleActive("FRIEND_IS_GOAL")
        pushDisabled == isRuleActive("PUSH_IS_DISABLED")
        pushable == getPushableAt(toX, toY)
        dirX == toX - fromX
        dirY == toY - fromY
        pushResult == canPush(toX, toY, dirX, dirY)
    IN  IF toX < 0 \/ toX >= gridWidth \/ toY < 0 \/ toY >= gridHeight
        THEN Blocked("out_of_bounds")
        ELSE IF ~isGhost /\ ~wallIsAir /\ isWallAt(toX, toY)
        THEN Blocked("wall")
        ELSE IF ~isGhost /\ gate # 0 /\ ~gates[gate].isOpen /\ ~allGatesOpen
        THEN MoveResult(FALSE, "gate", "none", gate, 0, 0, 0, -1, -1)
        ELSE IF friendIsAt(toX, toY) /\ friendIsGoal
        THEN MoveResult(TRUE, "win", "none", 0, 0, 0, 0, -1, -1)
        ELSE IF ~isGhost /\ pushable # 0 /\ entityType = "player"
        THEN IF pushDisabled
             THEN Blocked("push_disabled")
             ELSE IF pushResult.allowed
             THEN MoveResult(TRUE, "push", "none", 0, pushable, dirX, dirY,
                             pushResult.targetX, pushResult.targetY)
             ELSE Blocked("push_failed")
        ELSE MoveResult(TRUE, "move", "none", 0, 0, 0, 0, -1, -1)

canMoveTo(fromX, fromY, toX, toY, entityType) ==
    LET isGhost == isRuleActive("PLAYER_IS_GHOST")
        wallIsAir == isRuleActive("WALL_IS_AIR")
        allGatesOpen == isRuleActive("GATE_IS_OPEN")
        gate == getGateAt(toX, toY)
        friendIsGoal == isRuleActive("FRIEND_IS_GOAL")
        pushDisabled == isRuleActive("PUSH_IS_DISABLED")
        pushable == getPushableAt(toX, toY)
        dirX == toX - fromX
        dirY == toY - fromY
        pushResult == canPush(toX, toY, dirX, dirY)
    IN  IF toX < 0 \/ toX >= gridWidth \/ toY < 0 \/ toY >= gridHeight
        THEN Blocked("out_of_bounds")
        ELSE IF ~isGhost /\ ~wallIsAir /\ isWallAt(toX, toY)
        THEN Blocked("wall")
        ELSE IF ~isGhost /\ gate # 0 /\ ~gates[gate].isOpen /\ ~allGatesOpen
        THEN MoveResult(FALSE, "gate", "none", gate, 0, 0, 0, -1, -1)
        ELSE IF friendIsAt(toX, toY) /\ friendIsGoal
        THEN MoveResult(TRUE, "win", "none", 0, 0, 0, 0, -1, -1)
        ELSE IF ~isGhost /\ pushable # 0 /\ entityType = "player"
        THEN IF pushDisabled
             THEN Blocked("push_disabled")
             ELSE IF pushResult.allowed
             THEN MoveResult(TRUE, "push", "none", 0, pushable, dirX, dirY,
                             pushResult.targetX, pushResult.targetY)
             ELSE Blocked("push_failed")
        ELSE MoveResult(TRUE, "move", "none", 0, 0, 0, 0, -1, -1)

Cells == (0..(gridWidth - 1)) \X (0..(gridHeight - 1))
InBounds(x, y) == x >= 0 /\ x < gridWidth /\ y >= 0 /\ y < gridHeight

(***************************************************************************)
(* Input                                                                   *)
(***************************************************************************)
\* Game.getInputDirection: one axis at a time, one step
Directions == {<<-1, 0>>, <<1, 0>>, <<0, -1>>, <<0, 1>>}

NoMove == MoveResult(FALSE, "none", "none", 0, 0, 0, 0, -1, -1)
NoPush == PushResult(FALSE, "none", -1, -1)
NoCall == [call |-> "none", fromX |-> 0, fromY |-> 0, toX |-> 0, toY |-> 0,
           move |-> NoMove, push |-> NoPush]

(***************************************************************************)
(* The riddle modal of UIManager and the bookkeeping of the scene          *)
(***************************************************************************)
Effect(ruleId, value) == [ruleId |-> ruleId, value |-> value]
NoEffect == Effect("none", FALSE)
NoRiddle == [type |-> "none", effects |-> <<>>]

\* the UIManager constructor
NoUI == [isModalOpen |-> FALSE, modalVisible |-> FALSE, currentGate |-> 0,
         currentRiddle |-> NoRiddle, pendingRuleEffect |-> NoEffect,
         currentLives |-> maxLives, escListeners |-> 0,
         buttonsEnabled |-> FALSE]

\* no push of another caller is in flight
NoOtherPush == [pushable |-> 0, targetX |-> -1, targetY |-> -1]

NoPushChain == [stage |-> "idle", pushable |-> 0, targetX |-> -1, targetY |-> -1,
                newX |-> -1, newY |-> -1]

(***************************************************************************)
(* SpecPhysics: GridPhysics as a unit.  The registries and the rule table  *)
(* are the inputs of canMoveTo and canPush; they are drawn from bounded    *)
(* sets, and the two actions are the two queries.                          *)
(***************************************************************************)
\* the two cells the registries of SpecPhysics populate: the last two cells
\* of the top row (the second one touches the east border)
NearCell == <<gridWidth - 2, 0>>
FarCell == <<gridWidth - 1, 0>>
LayoutCells == {NearCell, FarCell}

\* the rules GridPhysics reads, and one wall-type rule
PhysRules == {"WALL_IS_AIR", "PLAYER_IS_GHOST", "GATE_IS_OPEN",
              "PUSH_IS_DISABLED", "FRIEND_IS_GOAL", "BRICK_IS_AIR"}

Wall(c, t) == [gridX |-> c[1], gridY |-> c[2], type |-> t]
Gate(c, t, open, effects) ==
    [gridX |-> c[1], gridY |-> c[2], type |-> t, isOpen |-> open, effects |-> effects]
Pushable(c) == [gridX |-> c[1], gridY |-> c[2], isMoving |-> FALSE]
Entity(c) == [gridX |-> c[1], gridY |-> c[2]]
PlayerAt(c) == [gridX |-> c[1], gridY |-> c[2], isMoving |-> FALSE]
\* a socket of Game.createSockets; unlocksWall is <<>> for null and
\* <<[row, col]>> for a link; activations counts the activateSocket calls
Socket(c, link) ==
    [gridX |-> c[1], gridY |-> c[2], isFilled |-> FALSE, unlocksWall |-> link,
     activations |-> 0]
LinkTo(c) == <<[row |-> c[2], col |-> c[1]]>>
SpecialWall(c) == [gridX |-> c[1], gridY |-> c[2], isUnlocked |-> FALSE]

PhysWallLayouts ==
    {<<>>} \cup {<<Wall(c, t)>> : c \in LayoutCells, t \in {"brick", "wood"}}
PhysGateLayouts ==
    {<<>>} \cup {<<Gate(c, "barrier", o, <<>>)>> : c \in LayoutCells, o \in BOOLEAN}
PhysPushableLayouts ==
    {<<Pushable(NearCell)>>, <<Pushable(FarCell)>>,
     <<Pushable(NearCell), Pushable(FarCell)>>}
PhysFriendLayouts == {<<>>} \cup {<<Entity(c)>> : c \in LayoutCells}
PhysPlayerCells == {<<gridWidth - 3, 0>>, NearCell}

InitPhysics ==
    /\ \E on \in SUBSET PhysRules :
          rules = [r \in RuleIds |-> IF r \in PhysRules THEN r \in on ELSE DefaultRules[r]]
    /\ history = <<>>
    /\ walls \in PhysWallLayouts
    /\ gates \in PhysGateLayouts
    /\ pushables \in PhysPushableLayouts
    /\ friend \in PhysFriendLayouts
    /\ \E c \in PhysPlayerCells : player = PlayerAt(c)
    /\ lastResult = NoCall
    /\ ui = NoUI
    /\ timers = EmptyBag
    /\ tweens = EmptyBag
    /\ push = NoPushChain
    /\ hasWon = FALSE
    /\ gateOpened = [g \in 1..Len(gates) |-> 0]
    /\ sockets = <<>>
    /\ specialWalls = <<>>
    /\ specialRegistry = {}
    /\ activeEffects = {}
    /\ wallTweens = EmptyBag
    /\ otherPush = NoOtherPush

QueryMove_stepsIn(d) ==
    /\ lastResult' = [call |-> "canMoveTo",
                      fromX |-> player.gridX, fromY |-> player.gridY,
                      toX |-> player.gridX + d[1], toY |-> player.gridY + d[2],
                      move |-> canMoveTo(player.gridX, player.gridY,
                                         player.gridX + d[1], player.gridY + d[2],
                                         "player"),
                      push |-> NoPush]
    /\ player' = IF canMoveTo(player.gridX, player.gridY,
                              player.gridX + d[1], player.gridY + d[2],
                              "player").action = "move"
                 THEN [player EXCEPT !.gridX = @ + d[1], !.gridY = @ + d[2]]
                 ELSE player
    /\ UNCHANGED <<rules, history, walls, gates, pushables, friend>>
    /\ UNCHANGED sessionVars
    /\ UNCHANGED socketVars
    /\ UNCHANGED activeEffects
    /\ UNCHANGED wallTweens
    /\ UNCHANGED otherPush

\* a canMoveTo call for the player's cell and one input direction
QueryMove(d) ==
    /\ lastResult' = [call |-> "canMoveTo",
                      fromX |-> player.gridX, fromY |-> player.gridY,
                      toX |-> player.gridX + d[1], toY |-> player.gridY + d[2],
                      move |-> canMoveTo(player.gridX, player.gridY,
                                         player.gridX + d[1], player.gridY + d[2],
                                         "player"),
                      push |-> NoPush]
    /\ UNCHANGED <<rules, history, walls, gates, pushables, friend, player>>
    /\ UNCHANGED sessionVars
    /\ UNCHANGED socketVars
    /\ UNCHANGED activeEffects
    /\ UNCHANGED wallTweens
    /\ UNCHANGED otherPush

\* a canPush call for a registered pushable and one direction
QueryPush(i, d) ==
    /\ lastResult' = [call |-> "canPush",
                      fromX |-> pushables[i].gridX, fromY |-> pushables[i].gridY,
                      toX |-> pushables[i].gridX + d[1],
                      toY |-> pushables[i].gridY + d[2],
                      move |-> NoMove,
                      push |-> canPush(pushables[i].gridX, pushables[i].gridY,
                                       d[1], d[2])]
    /\ UNCHANGED <<rules, history, walls, gates, pushables, friend, player>>
    /\ UNCHANGED sessionVars
    /\ UNCHANGED socketVars
    /\ UNCHANGED activeEffects
    /\ UNCHANGED wallTweens
    /\ UNCHANGED otherPush

NextPhysics ==
    \/ \E d \in Directions : QueryMove(d)
    \/ \E i \in 1..Len(pushables), d \in Directions : QueryPush(i, d)

SpecPhysics == InitPhysics /\ [][NextPhysics]_vars

(***************************************************************************)
(* Spec: one level session.  Input, the push promise chain, the riddle     *)
(* modal with its delayed calls and close tweens, riddle effects and the   *)
(* rule visuals of the scene.  Delays are not measured: a pending delayed  *)
(* call or tween may fire whenever it is pending, except that the two      *)
(* delayed calls of one close tween (50 ms, 100 ms) fire in that order.    *)
(***************************************************************************)
\* Four small levels on the 4 x 2 field in the north-west corner of the grid;
\* whatever the grid has beyond that field is steel wall, as the margin of an
\* authored level matrix is.  A gate carries the effects of the riddle that
\* Game.handleGateCollision picks for it: the ruleEffect of a rule gate, the
\* per-answer effects of the choice riddle of a choice gate.
GridCells == [k \in 1..(gridWidth * gridHeight) |->
                 <<(k - 1) % gridWidth, (k - 1) \div gridWidth>>]
InMargin(c) == c[1] > 3 \/ c[2] > 1
Margin ==
    LET cells == SelectSeq(GridCells, InMargin)
    IN  [k \in 1..Len(cells) |-> Wall(cells[k], "steel")]

LevelGates ==
    [walls |-> <<Wall(<<1, 1>>, "steel"), Wall(<<2, 1>>, "steel"),
                 Wall(<<3, 1>>, "steel")>> \o Margin,
     gates |-> <<Gate(<<1, 0>>, "rule", FALSE, <<Effect("GATE_IS_OPEN", TRUE)>>),
                 Gate(<<0, 1>>, "barrier", FALSE, <<>>)>>,
     pushables |-> <<>>,
     friend |-> <<Entity(<<3, 0>>)>>,
     player |-> PlayerAt(<<0, 0>>),
     sockets |-> <<>>,
     specialWalls |-> <<>>]

LevelPush ==
    [walls |-> Margin,
     gates |-> <<Gate(<<0, 1>>, "rule", FALSE, <<Effect("PUSH_IS_DISABLED", TRUE)>>)>>,
     pushables |-> <<Pushable(<<1, 0>>), Pushable(<<1, 1>>), Pushable(<<3, 1>>)>>,
     friend |-> <<Entity(<<2, 0>>)>>,
     player |-> PlayerAt(<<0, 0>>),
     sockets |-> <<>>,
     specialWalls |-> <<>>]

LevelWalls ==
    [walls |-> <<Wall(<<3, 0>>, "brick"), Wall(<<0, 1>>, "steel"),
                 Wall(<<1, 1>>, "steel"), Wall(<<2, 1>>, "steel")>> \o Margin,
     gates |-> <<Gate(<<1, 0>>, "rule", FALSE, <<Effect("WALL_IS_AIR", TRUE)>>)>>,
     pushables |-> <<Pushable(<<2, 0>>)>>,
     friend |-> <<Entity(<<3, 1>>)>>,
     player |-> PlayerAt(<<0, 0>>),
     sockets |-> <<>>,
     specialWalls |-> <<>>]

LevelShuffle ==
    [walls |-> <<Wall(<<3, 0>>, "brick"), Wall(<<0, 1>>, "brick"),
                 Wall(<<1, 1>>, "steel")>> \o Margin,
     gates |-> <<Gate(<<1, 0>>, "choice", FALSE,
                      <<Effect("BRICK_SHUFFLE", TRUE),
                        Effect("PLAYER_IS_FAST", TRUE)>>)>>,
     pushables |-> <<Pushable(<<2, 0>>)>>,
     friend |-> <<Entity(<<3, 1>>)>>,
     player |-> PlayerAt(<<0, 0>>),
     sockets |-> <<>>,
     specialWalls |-> <<>>]

\* two sockets without links in the way of one pushable, two special walls
LevelSockets ==
    [walls |-> Margin,
     gates |-> <<>>,
     pushables |-> <<Pushable(<<1, 0>>)>>,
     friend |-> <<Entity(<<3, 1>>)>>,
     player |-> PlayerAt(<<0, 0>>),
     sockets |-> <<Socket(<<2, 0>>, <<>>), Socket(<<3, 0>>, <<>>)>>,
     specialWalls |-> <<SpecialWall(<<0, 1>>), SpecialWall(<<1, 1>>)>>]

\* two sockets, each linked to one special wall, a pushable before each
LevelLinked ==
    [walls |-> Margin,
     gates |-> <<>>,
     pushables |-> <<Pushable(<<1, 0>>), Pushable(<<1, 1>>)>>,
     friend |-> <<Entity(<<3, 1>>)>>,
     player |-> PlayerAt(<<0, 0>>),
     sockets |-> <<Socket(<<2, 0>>, LinkTo(<<0, 1>>)),
                   Socket(<<2, 1>>, LinkTo(<<3, 0>>))>>,
     specialWalls |-> <<SpecialWall(<<0, 1>>), SpecialWall(<<3, 0>>)>>]

\* one linked socket a pushable can be pushed onto, off and onto again by
\* walking around it; the level has no friend
LevelRefill ==
    [walls |-> Margin,
     gates |-> <<>>,
     pushables |-> <<Pushable(<<2, 0>>)>>,
     friend |-> <<>>,
     player |-> PlayerAt(<<3, 0>>),
     sockets |-> <<Socket(<<1, 0>>, LinkTo(<<3, 1>>))>>,
     specialWalls |-> <<SpecialWall(<<3, 1>>)>>]

\* a rule gate whose riddle turns FRIEND_IS_GOAL off, on the way to the friend
LevelGoal ==
    [walls |-> <<Wall(<<3, 0>>, "steel"), Wall(<<0, 1>>, "steel"),
                 Wall(<<1, 1>>, "steel"), Wall(<<2, 1>>, "steel"),
                 Wall(<<3, 1>>, "steel")>> \o Margin,
     gates |-> <<Gate(<<1, 0>>, "rule", FALSE, <<Effect("FRIEND_IS_GOAL", FALSE)>>)>>,
     pushables |-> <<>>,
     friend |-> <<Entity(<<2, 0>>)>>,
     player |-> PlayerAt(<<0, 0>>),
     sockets |-> <<>>,
     specialWalls |-> <<>>]

\* a rule gate whose riddle turns the iron walls into steel
LevelTransform ==
    [walls |-> <<Wall(<<2, 0>>, "iron"), Wall(<<0, 1>>, "iron"),
                 Wall(<<1, 1>>, "brick")>> \o Margin,
     gates |-> <<Gate(<<1, 0>>, "rule", FALSE, <<Effect("IRON_TO_STEEL", TRUE)>>)>>,
     pushables |-> <<>>,
     friend |-> <<Entity(<<3, 1>>)>>,
     player |-> PlayerAt(<<0, 0>>),
     sockets |-> <<>>,
     specialWalls |-> <<>>]

\* a rule gate whose riddle makes the player a ghost, walls around
LevelGhost ==
    [walls |-> <<Wall(<<0, 1>>, "steel"), Wall(<<1, 1>>, "steel"),
                 Wall(<<2, 0>>, "brick")>> \o Margin,
     gates |-> <<Gate(<<1, 0>>, "rule", FALSE, <<Effect("PLAYER_IS_GHOST", TRUE)>>)>>,
     pushables |-> <<>>,
     friend |-> <<Entity(<<3, 1>>)>>,
     player |-> PlayerAt(<<0, 0>>),
     sockets |-> <<>>,
     specialWalls |-> <<>>]

\* a rule gate whose riddle turns the brick walls to air and a barrier gate,
\* both next to the player's start
LevelRiddles ==
    [walls |-> <<Wall(<<1, 1>>, "steel"), Wall(<<2, 0>>, "brick")>> \o Margin,
     gates |-> <<Gate(<<1, 0>>, "rule", FALSE, <<Effect("BRICK_IS_AIR", TRUE)>>),
                 Gate(<<0, 1>>, "barrier", FALSE, <<>>)>>,
     pushables |-> <<>>,
     friend |-> <<Entity(<<3, 1>>)>>,
     player |-> PlayerAt(<<0, 0>>),
     sockets |-> <<>>,
     specialWalls |-> <<>>]

Levels == {LevelGates, LevelPush, LevelWalls, LevelShuffle, LevelSockets,
           LevelLinked, LevelRefill, LevelGoal, LevelTransform, LevelGhost}

\* Game.create: the registries of the level, RuleManager.reset, a new UIManager
Init ==
    /\ \E level \in Levels :
          /\ walls = level.walls
          /\ gates = level.gates
          /\ pushables = level.pushables
          /\ friend = level.friend
          /\ player = level.player
          /\ sockets = level.sockets
          /\ specialWalls = level.specialWalls
    /\ rules = DefaultRules
    /\ history = <<>>
    /\ lastResult = NoCall
    /\ ui = NoUI
    /\ timers = EmptyBag
    /\ tweens = EmptyBag
    /\ push = NoPushChain
    /\ hasWon = FALSE
    /\ gateOpened = [g \in 1..Len(gates) |-> 0]
    /\ specialRegistry = registerSpecialWalls(specialWalls)
    /\ activeEffects = {}
    /\ wallTweens = EmptyBag
    /\ otherPush = NoOtherPush

Put(bag, e) == bag (+) SetToBag({e})
Take(bag, e) == bag (-) SetToBag({e})

Pending == BagCardinality(timers) + BagCardinality(tweens)

\* no then-handler or catch-handler of the push promise is queued: a
\* microtask runs before any other event of the scene
TurnOver == push.stage \notin {"resolved", "rejected"}

\* Game.handleGateCollision: the riddle of a gate
riddleFor(gate) ==
    IF gate.type = "choice" /\ Len(gate.effects) > 0
    THEN [type |-> "choice", effects |-> gate.effects]
    ELSE IF gate.type = "rule" /\ Len(gate.effects) > 0
    THEN [type |-> "rule", effects |-> gate.effects]
    ELSE [type |-> "barrier", effects |-> <<>>]

\* UIManager.showRiddle, after handleGateCollision has set currentRiddle
showRiddle(gate) ==
    [ui EXCEPT !.currentGate = gate,
               !.isModalOpen = TRUE,
               !.currentRiddle = riddleFor(gates[gate]),
               !.buttonsEnabled = TRUE,
               !.modalVisible = TRUE,
               !.escListeners = @ + 1]

\* Game.checkWinCondition / handleWin after a tryMove that returned true
checkWinCondition(px, py) ==
    hasWon \/ (Len(friend) = 1 /\ friend[1].gridX = px /\ friend[1].gridY = py)

TryMove_whileMoving(d) ==
    /\ ~hasWon
    /\ ~ui.isModalOpen
    /\ LET newX == player.gridX + d[1]
           newY == player.gridY + d[2]
           moveResult == canMoveTo(player.gridX, player.gridY, newX, newY, "player")
       IN  /\ moveResult.action = "gate" => ui.escListeners < MaxEscListeners
           /\ IF moveResult.allowed /\ moveResult.action = "push"
              THEN /\ IF pushables[moveResult.pushable].isMoving
                      THEN \* Pushable.push rejects; the catch handler of
                           \* executePush is queued
                           /\ player' = [player EXCEPT !.isMoving = TRUE]
                           /\ push' = [NoPushChain EXCEPT !.stage = "rejected"]
                           /\ UNCHANGED pushables
                      ELSE /\ player' = [player EXCEPT !.isMoving = TRUE]
                           /\ pushables' =
                                [pushables EXCEPT ![moveResult.pushable].isMoving = TRUE]
                           /\ push' = [stage |-> "tween",
                                       pushable |-> moveResult.pushable,
                                       targetX |-> moveResult.targetX,
                                       targetY |-> moveResult.targetY,
                                       newX |-> newX, newY |-> newY]
                   /\ hasWon' = checkWinCondition(player.gridX, player.gridY)
                   /\ UNCHANGED ui
              ELSE IF moveResult.allowed
              THEN /\ player' = [gridX |-> newX, gridY |-> newY, isMoving |-> TRUE]
                   /\ hasWon' = checkWinCondition(newX, newY)
                   /\ UNCHANGED <<pushables, push, ui>>
              ELSE IF moveResult.action = "gate"
              THEN /\ ui' = IF gates[moveResult.gate].isOpen
                            THEN ui
                            ELSE showRiddle(moveResult.gate)
                   /\ UNCHANGED <<player, pushables, push, hasWon>>
              ELSE UNCHANGED <<player, pushables, push, ui, hasWon>>
    /\ UNCHANGED <<rules, history, walls, gates, friend, lastResult, timers,
                   tweens, gateOpened>>
    /\ UNCHANGED socketVars
    /\ UNCHANGED activeEffects
    /\ UNCHANGED wallTweens
    /\ UNCHANGED otherPush

\* Game.update with a direction held down: the guards of update, then
\* Player.tryMove with everything it calls synchronously (moveTo or
\* executePush with Pushable.push, or handleGateCollision with showRiddle),
\* then checkWinCondition when tryMove returned true
TryMove(d) ==
    /\ ~hasWon
    /\ ~ui.isModalOpen
    /\ ~player.isMoving
    /\ LET newX == player.gridX + d[1]
           newY == player.gridY + d[2]
           moveResult == canMoveTo(player.gridX, player.gridY, newX, newY, "player")
       IN  /\ moveResult.action = "gate" => ui.escListeners < MaxEscListeners
           /\ IF moveResult.allowed /\ moveResult.action = "push"
              THEN /\ IF pushables[moveResult.pushable].isMoving
                      THEN \* Pushable.push rejects; the catch handler of
                           \* executePush is queued
                           /\ player' = [player EXCEPT !.isMoving = TRUE]
                           /\ push' = [NoPushChain EXCEPT !.stage = "rejected"]
                           /\ UNCHANGED pushables
                      ELSE /\ player' = [player EXCEPT !.isMoving = TRUE]
                           /\ pushables' =
                                [pushables EXCEPT ![moveResult.pushable].isMoving = TRUE]
                           /\ push' = [stage |-> "tween",
                                       pushable |-> moveResult.pushable,
                                       targetX |-> moveResult.targetX,
                                       targetY |-> moveResult.targetY,
                                       newX |-> newX, newY |-> newY]
                   /\ hasWon' = checkWinCondition(player.gridX, player.gridY)
                   /\ UNCHANGED ui
              ELSE IF moveResult.allowed
              THEN /\ player' = [gridX |-> newX, gridY |-> newY, isMoving |-> TRUE]
                   /\ hasWon' = checkWinCondition(newX, newY)
                   /\ UNCHANGED <<pushables, push, ui>>
              ELSE IF moveResult.action = "gate"
              THEN /\ ui' = IF gates[moveResult.gate].isOpen
                            THEN ui
                            ELSE showRiddle(moveResult.gate)
                   /\ UNCHANGED <<player, pushables, push, hasWon>>
              ELSE UNCHANGED <<player, pushables, push, ui, hasWon>>
    /\ UNCHANGED <<rules, history, walls, gates, friend, lastResult, timers,
                   tweens, gateOpened>>
    /\ UNCHANGED socketVars
    /\ UNCHANGED activeEffects
    /\ UNCHANGED wallTweens
    /\ UNCHANGED otherPush

unlockSpecialWall_keepsCollision(st, wall) ==
    IF st.specialWalls[wall].isUnlocked THEN st
    ELSE [st EXCEPT !.specialWalls[wall].isUnlocked = TRUE]

\* Game.unlockSpecialWall on st = [sockets, specialWalls, registry]
unlockSpecialWall(st, wall) ==
    IF st.specialWalls[wall].isUnlocked THEN st
    ELSE [st EXCEPT !.specialWalls[wall].isUnlocked = TRUE,
                    !.registry = removeSpecialWall(@, wall)]

\* Game.unlockSpecialWalls: unlockSpecialWall on every special wall, in order
RECURSIVE unlockSpecialWallsFrom(_, _)
unlockSpecialWallsFrom(st, wall) ==
    IF wall > Len(st.specialWalls) THEN st
    ELSE unlockSpecialWallsFrom(unlockSpecialWall(st, wall), wall + 1)

unlockSpecialWalls(st) == unlockSpecialWallsFrom(st, 1)

activateSocket_anyFilled(st, socket) ==
    LET filled == [st EXCEPT !.sockets[socket].isFilled = TRUE,
                             !.sockets[socket].activations = @ + 1]
        link == st.sockets[socket].unlocksWall
        linkedWall == FindIndex({w \in 1..Len(st.specialWalls) :
                                    /\ st.specialWalls[w].gridY = link[1].row
                                    /\ st.specialWalls[w].gridX = link[1].col})
    IN  IF link # <<>>
        THEN IF linkedWall # 0 /\ ~st.specialWalls[linkedWall].isUnlocked
             THEN unlockSpecialWall(filled, linkedWall)
             ELSE filled
        ELSE unlockSpecialWalls(filled)

activateSocket_rowColSwapped(st, socket) ==
    LET filled == [st EXCEPT !.sockets[socket].isFilled = TRUE,
                             !.sockets[socket].activations = @ + 1]
        link == st.sockets[socket].unlocksWall
        linkedWall == FindIndex({w \in 1..Len(st.specialWalls) :
                                    /\ st.specialWalls[w].gridX = link[1].row
                                    /\ st.specialWalls[w].gridY = link[1].col})
    IN  IF link # <<>>
        THEN IF linkedWall # 0 /\ ~st.specialWalls[linkedWall].isUnlocked
             THEN unlockSpecialWall(filled, linkedWall)
             ELSE filled
        ELSE IF \A s \in 1..Len(filled.sockets) : filled.sockets[s].isFilled
        THEN unlockSpecialWalls(filled)
        ELSE filled

\* Game.activateSocket
activateSocket(st, socket) ==
    LET filled == [st EXCEPT !.sockets[socket].isFilled = TRUE,
                             !.sockets[socket].activations = @ + 1]
        link == st.sockets[socket].unlocksWall
        linkedWall == FindIndex({w \in 1..Len(st.specialWalls) :
                                    /\ st.specialWalls[w].gridY = link[1].row
                                    /\ st.specialWalls[w].gridX = link[1].col})
    IN  IF link # <<>>
        THEN IF linkedWall # 0 /\ ~st.specialWalls[linkedWall].isUnlocked
             THEN unlockSpecialWall(filled, linkedWall)
             ELSE filled
        ELSE IF \A s \in 1..Len(filled.sockets) : filled.sockets[s].isFilled
        THEN unlockSpecialWalls(filled)
        ELSE filled

checkSocketActivation_ignoresFilled(st, newX, newY) ==
    LET socket == FindIndex({s \in 1..Len(st.sockets) :
                                /\ st.sockets[s].gridX = newX
                                /\ st.sockets[s].gridY = newY})
    IN  IF socket # 0 THEN activateSocket(st, socket) ELSE st

\* Game.checkSocketActivation, the onMoved callback of every pushable
checkSocketActivation(st, newX, newY) ==
    LET socket == FindIndex({s \in 1..Len(st.sockets) :
                                /\ st.sockets[s].gridX = newX
                                /\ st.sockets[s].gridY = newY
                                /\ ~st.sockets[s].isFilled})
    IN  IF socket # 0 THEN activateSocket(st, socket) ELSE st

\* the move tween of Pushable.push completes: the pushable takes its target
\* cell, onMoved runs checkSocketActivation, and the promise resolves
PushTweenComplete ==
    /\ push.stage = "tween"
    /\ pushables' = [pushables EXCEPT ![push.pushable] =
                        [gridX |-> push.targetX, gridY |-> push.targetY,
                         isMoving |-> FALSE]]
    /\ LET st == checkSocketActivation([sockets |-> sockets,
                                        specialWalls |-> specialWalls,
                                        registry |-> specialRegistry],
                                       push.targetX, push.targetY)
       IN  /\ sockets' = st.sockets
           /\ specialWalls' = st.specialWalls
           /\ specialRegistry' = st.registry
    /\ push' = [push EXCEPT !.stage = "resolved"]
    /\ UNCHANGED <<rules, history, walls, gates, friend, player, lastResult,
                   ui, timers, tweens, hasWon, gateOpened, activeEffects,
                   wallTweens, otherPush>>

\* the then-handler of Player.executePush, a microtask of the turn in which
\* the tween completed: Player.moveTo
PushThen ==
    /\ push.stage = "resolved"
    /\ player' = [gridX |-> push.newX, gridY |-> push.newY, isMoving |-> TRUE]
    /\ push' = NoPushChain
    /\ UNCHANGED <<rules, history, walls, gates, pushables, friend, lastResult,
                   ui, timers, tweens, hasWon, gateOpened>>
    /\ UNCHANGED socketVars
    /\ UNCHANGED activeEffects
    /\ UNCHANGED wallTweens
    /\ UNCHANGED otherPush

catchPush_keepsMoving(p) == p

\* the catch-handler of Player.executePush on the player p
catchPush(p) == [p EXCEPT !.isMoving = FALSE]

\* the catch-handler of Player.executePush runs, a microtask of the turn in
\* which Pushable.push rejected
PushCatch ==
    /\ push.stage = "rejected"
    /\ player' = catchPush(player)
    /\ push' = NoPushChain
    /\ UNCHANGED <<rules, history, walls, gates, pushables, friend, lastResult,
                   ui, timers, tweens, hasWon, gateOpened>>
    /\ UNCHANGED socketVars
    /\ UNCHANGED activeEffects
    /\ UNCHANGED wallTweens
    /\ UNCHANGED otherPush

\* another caller pushes pushable i: GridPhysics.executePush after canPush
\* allowed it, that is Pushable.push, which starts the move tween
OtherPush(i, d) ==
    /\ TurnOver
    /\ otherPush = NoOtherPush
    /\ push.stage = "idle"
    /\ ~pushables[i].isMoving
    /\ canPush(pushables[i].gridX, pushables[i].gridY, d[1], d[2]).allowed
    /\ pushables' = [pushables EXCEPT ![i].isMoving = TRUE]
    /\ otherPush' = [pushable |-> i,
                     targetX |-> pushables[i].gridX + d[1],
                     targetY |-> pushables[i].gridY + d[2]]
    /\ UNCHANGED <<rules, history, walls, gates, friend, player, lastResult,
                   ui, timers, tweens, push, hasWon, gateOpened>>
    /\ UNCHANGED socketVars
    /\ UNCHANGED activeEffects
    /\ UNCHANGED wallTweens

\* the move tween of that push completes: the pushable takes its new cell and
\* onMoved runs checkSocketActivation
OtherPushComplete ==
    /\ TurnOver
    /\ otherPush # NoOtherPush
    /\ pushables' = [pushables EXCEPT ![otherPush.pushable] =
                        [gridX |-> otherPush.targetX, gridY |-> otherPush.targetY,
                         isMoving |-> FALSE]]
    /\ LET st == checkSocketActivation([sockets |-> sockets,
                                        specialWalls |-> specialWalls,
                                        registry |-> specialRegistry],
                                       otherPush.targetX, otherPush.targetY)
       IN  /\ sockets' = st.sockets
           /\ specialWalls' = st.specialWalls
           /\ specialRegistry' = st.registry
    /\ otherPush' = NoOtherPush
    /\ UNCHANGED <<rules, history, walls, gates, friend, player, lastResult,
                   ui, timers, tweens, push, hasWon, gateOpened>>
    /\ UNCHANGED activeEffects
    /\ UNCHANGED wallTweens

\* the tween of Player.moveTo completes
PlayerTweenComplete ==
    /\ player.isMoving
    /\ push.stage = "idle"
    /\ player' = [player EXCEPT !.isMoving = FALSE]
    /\ UNCHANGED <<rules, history, walls, gates, pushables, friend, lastResult,
                   ui, timers, tweens, push, hasWon, gateOpened>>
    /\ UNCHANGED socketVars
    /\ UNCHANGED activeEffects
    /\ UNCHANGED wallTweens
    /\ UNCHANGED otherPush

\* the answer buttons UIManager.createAnswerButtons makes for a riddle
Buttons(riddle) ==
    IF riddle.type = "choice"
    THEN {[isChoiceRiddle |-> TRUE, isCorrect |-> FALSE, effect |-> riddle.effects[i]] :
             i \in 1..Len(riddle.effects)}
    ELSE {[isChoiceRiddle |-> FALSE, isCorrect |-> b, effect |-> NoEffect] :
             b \in BOOLEAN}

\* currentRiddle.type === 'rule' && currentRiddle.effect
riddleEffect(riddle) ==
    IF riddle.type = "rule" /\ Len(riddle.effects) > 0
    THEN riddle.effects[1]
    ELSE NoEffect

loseLife(lives) == IF lives - 1 > 0 THEN lives - 1 ELSE 0

Timer(kind, answeredCorrectly, effect) ==
    [kind |-> kind, answeredCorrectly |-> answeredCorrectly, effect |-> effect]

\* UIManager.handleAnswerClick: the fields it writes and the hideModal call it
\* delays (1000 ms, 2000 ms or 2500 ms)
handleAnswerClick(buttonInfo) ==
    IF buttonInfo.isChoiceRiddle
    THEN [ui |-> [ui EXCEPT !.buttonsEnabled = FALSE,
                            !.pendingRuleEffect =
                                IF buttonInfo.effect # NoEffect
                                THEN buttonInfo.effect ELSE @],
          timer |-> Timer("hideModal", TRUE, NoEffect)]
    ELSE IF buttonInfo.isCorrect
    THEN [ui |-> [ui EXCEPT !.buttonsEnabled = FALSE,
                            !.pendingRuleEffect =
                                IF riddleEffect(ui.currentRiddle) # NoEffect
                                THEN riddleEffect(ui.currentRiddle) ELSE @],
          timer |-> Timer("hideModal", TRUE, NoEffect)]
    ELSE IF loseLife(ui.currentLives) <= 0
    THEN [ui |-> [ui EXCEPT !.buttonsEnabled = FALSE,
                            !.currentLives = loseLife(@)],
          timer |-> Timer("hideModal", FALSE, NoEffect)]
    ELSE [ui |-> [ui EXCEPT !.buttonsEnabled = FALSE,
                            !.currentLives = loseLife(@),
                            !.pendingRuleEffect =
                                IF riddleEffect(ui.currentRiddle) # NoEffect
                                THEN riddleEffect(ui.currentRiddle) ELSE @],
          timer |-> Timer("hideModal", TRUE, NoEffect)]

\* a pointerdown on an interactive answer button of the visible modal
AnswerClick(buttonInfo) ==
    /\ TurnOver
    /\ ui.modalVisible
    /\ ui.buttonsEnabled
    /\ Pending < MaxPending
    /\ ui' = handleAnswerClick(buttonInfo).ui
    /\ timers' = Put(timers, handleAnswerClick(buttonInfo).timer)
    /\ UNCHANGED <<rules, history, walls, gates, pushables, friend, player,
                   lastResult, tweens, push, hasWon, gateOpened>>
    /\ UNCHANGED socketVars
    /\ UNCHANGED activeEffects
    /\ UNCHANGED wallTweens
    /\ UNCHANGED otherPush

hideModal_asCorrect(answeredCorrectly) ==
    [ui |-> [ui EXCEPT !.escListeners = 0, !.pendingRuleEffect = NoEffect],
     tween |-> [answeredCorrectly |-> TRUE,
                effectToApply |-> ui.pendingRuleEffect]]

\* UIManager.hideModal up to the start of the close tween: the ESC listeners
\* are removed, the pending effect is captured and cleared
hideModal(answeredCorrectly) ==
    [ui |-> [ui EXCEPT !.escListeners = 0, !.pendingRuleEffect = NoEffect],
     tween |-> [answeredCorrectly |-> answeredCorrectly,
                effectToApply |-> ui.pendingRuleEffect]]

\* the delayed call of handleAnswerClick fires (the game-over panel it may
\* show takes no input of the level away)
FireHideModal(t) ==
    /\ TurnOver
    /\ t.kind = "hideModal"
    /\ ui' = hideModal(t.answeredCorrectly).ui
    /\ tweens' = Put(tweens, hideModal(t.answeredCorrectly).tween)
    /\ timers' = Take(timers, t)
    /\ UNCHANGED <<rules, history, walls, gates, pushables, friend, player,
                   lastResult, push, hasWon, gateOpened>>
    /\ UNCHANGED socketVars
    /\ UNCHANGED activeEffects
    /\ UNCHANGED wallTweens
    /\ UNCHANGED otherPush

\* ESC goes down: every `once` listener registered by showRiddle since the
\* last hideModal runs hideModal(false); the first one captures the pending
\* effect.  The keyboard is disabled once the level is won.
EscDown ==
    /\ TurnOver
    /\ ui.escListeners > 0
    /\ ~hasWon
    /\ ui' = hideModal(FALSE).ui
    /\ tweens' = IF ui.escListeners = 1
                 THEN Put(tweens, hideModal(FALSE).tween)
                 ELSE Put(tweens, hideModal(FALSE).tween)
                         (+) [e \in {[answeredCorrectly |-> FALSE,
                                      effectToApply |-> NoEffect]}
                                |-> ui.escListeners - 1]
    /\ UNCHANGED <<rules, history, walls, gates, pushables, friend, player,
                   lastResult, timers, push, hasWon, gateOpened>>
    /\ UNCHANGED socketVars
    /\ UNCHANGED activeEffects
    /\ UNCHANGED wallTweens
    /\ UNCHANGED otherPush

\* ESC in the level session: the close tween it starts fits the bound
PressEsc ==
    /\ Pending < MaxPending
    /\ EscDown

openGate_noGuard(gate) ==
    [gates |-> [gates EXCEPT ![gate].isOpen = TRUE], fired |-> TRUE]

\* UIManager.openGate: the registry after the call, and whether the
\* onGateOpened callback ran
openGate(gate) ==
    IF gates[gate].isOpen
    THEN [gates |-> gates, fired |-> FALSE]
    ELSE [gates |-> [gates EXCEPT ![gate].isOpen = TRUE], fired |-> TRUE]

\* onComplete of the close tween of hideModal
CloseTweenComplete(t) ==
    /\ TurnOver
    /\ IF t.answeredCorrectly /\ ui.currentGate # 0
       THEN /\ gates' = openGate(ui.currentGate).gates
            /\ gateOpened' =
                  IF openGate(ui.currentGate).fired
                  THEN [gateOpened EXCEPT ![ui.currentGate] = @ + 1]
                  ELSE gateOpened
       ELSE UNCHANGED <<gates, gateOpened>>
    /\ ui' = [ui EXCEPT !.modalVisible = FALSE,
                        !.currentGate = 0,
                        !.currentRiddle = NoRiddle]
    /\ timers' = Put(timers, Timer("enableInput", FALSE, t.effectToApply))
    /\ tweens' = Take(tweens, t)
    /\ UNCHANGED <<rules, history, walls, pushables, friend, player, lastResult,
                   push, hasWon>>
    /\ UNCHANGED socketVars
    /\ UNCHANGED activeEffects
    /\ UNCHANGED wallTweens
    /\ UNCHANGED otherPush

\* the 50 ms delayed call of the close tween; the 100 ms one, made with it
\* when there is an effect to apply, is due after it
FireEnableInput(t) ==
    /\ TurnOver
    /\ t.kind = "enableInput"
    /\ ui' = [ui EXCEPT !.isModalOpen = FALSE]
    /\ timers' = IF t.effect # NoEffect
                 THEN Put(Take(timers, t), Timer("applyRuleEffect", FALSE, t.effect))
                 ELSE Take(timers, t)
    /\ UNCHANGED <<rules, history, walls, gates, pushables, friend, player,
                   lastResult, tweens, push, hasWon, gateOpened>>
    /\ UNCHANGED socketVars
    /\ UNCHANGED activeEffects
    /\ UNCHANGED wallTweens
    /\ UNCHANGED otherPush

\* the options argument of setRule; source "" stands for an absent source
Options(source, silent) == [source |-> source, silent |-> silent]
NoOptions == Options("", FALSE)

\* the events RuleManager emits: 'ruleChanged' with its payload (isUndo is
\* absent, that is falsy, but for the one of undoLastChange), the event
\* named rule:<ruleId>, 'effectApplied' and 'rulesReset'
RuleChanged(ruleId, isActive, previousValue, isUndo) ==
    [name |-> "ruleChanged", ruleId |-> ruleId, isActive |-> isActive,
     previousValue |-> previousValue, isUndo |-> isUndo]
RuleEvent(ruleId, isActive) ==
    [name |-> "rule:", ruleId |-> ruleId, isActive |-> isActive]
EffectApplied(ruleId) == [name |-> "effectApplied", ruleId |-> ruleId]
RulesReset == [name |-> "rulesReset"]

\* what a call of RuleManager leaves: the table, the history, the keys of
\* activeEffects, whether setRule changed a value, the events emitted in order
Outcome(rs, hs, effects, changed, events) ==
    [rules |-> rs, history |-> hs, activeEffects |-> effects,
     changed |-> changed, events |-> events]

\* a record of the history; the timestamp is the reading of Date.now()
Change(ruleId, previousValue, newValue, source) ==
    [ruleId |-> ruleId, previousValue |-> previousValue, newValue |-> newValue,
     timestamp |-> "Date.now()", source |-> source]

setRule_alwaysRecords(ruleId, isActive, options) ==
    LET normalizedId == toUpperCase(ruleId)
    IN  IF normalizedId \notin DOMAIN rules
        THEN Outcome(rules, history, activeEffects, FALSE, <<>>)
        ELSE Outcome([rules EXCEPT ![normalizedId] = isActive],
                     Append(history,
                            Change(normalizedId, rules[normalizedId], isActive,
                                   IF options.source = "" THEN "unknown"
                                   ELSE options.source)),
                     activeEffects, TRUE,
                     IF options.silent THEN <<>>
                     ELSE <<RuleChanged(normalizedId, isActive,
                                        rules[normalizedId], FALSE),
                            RuleEvent(normalizedId, isActive)>>)

setRule_createsRule(ruleId, isActive, options) ==
    LET normalizedId == toUpperCase(ruleId)
        previousValue == IF normalizedId \in DOMAIN rules
                         THEN rules[normalizedId] ELSE FALSE
    IN  IF normalizedId \in DOMAIN rules /\ previousValue = isActive
        THEN Outcome(rules, history, activeEffects, FALSE, <<>>)
        ELSE Outcome((normalizedId :> isActive) @@ rules,
                     Append(history,
                            Change(normalizedId, previousValue, isActive,
                                   IF options.source = "" THEN "unknown"
                                   ELSE options.source)),
                     activeEffects, TRUE,
                     IF options.silent THEN <<>>
                     ELSE <<RuleChanged(normalizedId, isActive, previousValue, FALSE),
                            RuleEvent(normalizedId, isActive)>>)

\* RuleManager.setRule; .changed is the value it returns
setRule(ruleId, isActive, options) ==
    LET normalizedId == toUpperCase(ruleId)
    IN  IF normalizedId \notin DOMAIN rules
        THEN Outcome(rules, history, activeEffects, FALSE, <<>>)
        ELSE IF rules[normalizedId] = isActive
        THEN Outcome(rules, history, activeEffects, FALSE, <<>>)
        ELSE Outcome([rules EXCEPT ![normalizedId] = isActive],
                     Append(history,
                            Change(normalizedId, rules[normalizedId], isActive,
                                   IF options.source = "" THEN "unknown"
                                   ELSE options.source)),
                     activeEffects, TRUE,
                     IF options.silent THEN <<>>
                     ELSE <<RuleChanged(normalizedId, isActive,
                                        rules[normalizedId], FALSE),
                            RuleEvent(normalizedId, isActive)>>)

\* RuleManager.toggleRule: !currentState is true for the undefined of an
\* unknown rule; the call returns this.rules[normalizedId], <<>> for undefined
toggleRule(ruleId) ==
    LET normalizedId == toUpperCase(ruleId)
        currentState == IF normalizedId \in DOMAIN rules
                        THEN rules[normalizedId] ELSE FALSE
        set == setRule(normalizedId, ~currentState, NoOptions)
    IN  [set EXCEPT !.changed = IF normalizedId \in DOMAIN set.rules
                                THEN <<set.rules[normalizedId]>> ELSE <<>>]

\* RuleManager.applyRiddleEffect: an effect that is null or has no ruleId
\* ("" here) is refused; otherwise setRule with source 'riddle', then the
\* entry of activeEffects under the key as given and 'effectApplied'
applyRiddleEffect(effect) ==
    IF effect = NoEffect \/ effect.ruleId = ""
    THEN Outcome(rules, history, activeEffects, FALSE, <<>>)
    ELSE LET set == setRule(effect.ruleId, effect.value, Options("riddle", FALSE))
         IN  Outcome(set.rules, set.history,
                     activeEffects \cup {effect.ruleId}, set.changed,
                     set.events \o <<EffectApplied(effect.ruleId)>>)

undoLastChange_keepsValue(rm) ==
    IF Len(rm.history) = 0
    THEN Outcome(rm.rules, rm.history, rm.activeEffects, FALSE, <<>>)
    ELSE LET lastChange == rm.history[Len(rm.history)]
         IN  Outcome(rm.rules, SubSeq(rm.history, 1, Len(rm.history) - 1),
                     rm.activeEffects, TRUE,
                     <<RuleChanged(lastChange.ruleId, lastChange.previousValue,
                                   lastChange.newValue, TRUE)>>)

\* RuleManager.undoLastChange on the manager rm; .changed is the value it
\* returns
undoLastChange(rm) ==
    IF Len(rm.history) = 0
    THEN Outcome(rm.rules, rm.history, rm.activeEffects, FALSE, <<>>)
    ELSE LET lastChange == rm.history[Len(rm.history)]
         IN  Outcome([rm.rules EXCEPT ![lastChange.ruleId] = lastChange.previousValue],
                     SubSeq(rm.history, 1, Len(rm.history) - 1),
                     rm.activeEffects, TRUE,
                     <<RuleChanged(lastChange.ruleId, lastChange.previousValue,
                                   lastChange.newValue, TRUE)>>)

\* the rule table RuleManager.reset writes
ResetRules ==
    [r \in {"WALL_IS_AIR", "BRICK_IS_AIR", "WOOD_IS_AIR", "IRON_IS_AIR",
            "STEEL_IS_AIR", "EMERALD_IS_AIR", "GOLD_IS_AIR", "DIAMOND_IS_AIR",
            "LAPIS_IS_AIR", "QUARTZ_IS_AIR",
            "STEEL_TO_EMERALD", "IRON_TO_STEEL", "STEEL_TO_IRON",
            "WOOD_TO_IRON", "IRON_TO_WOOD", "LAPIS_TO_DIAMOND", "GOLD_TO_LAPIS",
            "BRICK_SHUFFLE", "WOOD_SHUFFLE", "IRON_SHUFFLE", "STEEL_SHUFFLE",
            "PLAYER_IS_FAST", "PLAYER_IS_SLOW", "PUSH_IS_DISABLED",
            "GATE_IS_OPEN", "FRIEND_IS_GOAL", "PLAYER_IS_GHOST"}
       |-> (r = "FRIEND_IS_GOAL")]

reset_keepsHistory(rm) ==
    Outcome(ResetRules, rm.history, {}, FALSE, <<RulesReset>>)

\* RuleManager.reset on the manager rm
reset(rm) == Outcome(ResetRules, <<>>, {}, FALSE, <<RulesReset>>)

\* the rule manager of the scene
Manager == [rules |-> rules, history |-> history, activeEffects |-> activeEffects]

isPositionEmpty_ignoresWalls(ws, x, y) ==
    /\ InBounds(x, y)
    /\ \A i \in 1..Len(specialWalls) :
          ~(specialWalls[i].gridX = x /\ specialWalls[i].gridY = y)
    /\ \A i \in 1..Len(gates) : ~(gates[i].gridX = x /\ gates[i].gridY = y)
    /\ ~(player.gridX = x /\ player.gridY = y)
    /\ ~friendIsAt(x, y)
    /\ \A i \in 1..Len(pushables) : ~(pushables[i].gridX = x /\ pushables[i].gridY = y)
    /\ \A i \in 1..Len(sockets) : ~(sockets[i].gridX = x /\ sockets[i].gridY = y)

\* Game.isPositionEmpty against a wall registry
isPositionEmpty(ws, x, y) ==
    /\ InBounds(x, y)
    /\ \A i \in 1..Len(ws) : ~(ws[i].gridX = x /\ ws[i].gridY = y)
    /\ \A i \in 1..Len(specialWalls) :
          ~(specialWalls[i].gridX = x /\ specialWalls[i].gridY = y)
    /\ \A i \in 1..Len(gates) : ~(gates[i].gridX = x /\ gates[i].gridY = y)
    /\ ~(player.gridX = x /\ player.gridY = y)
    /\ ~friendIsAt(x, y)
    /\ \A i \in 1..Len(pushables) : ~(pushables[i].gridX = x /\ pushables[i].gridY = y)
    /\ \A i \in 1..Len(sockets) : ~(sockets[i].gridX = x /\ sockets[i].gridY = y)

RECURSIVE IndicesOfType(_, _, _)
IndicesOfType(ws, wallType, from) ==
    IF from > Len(ws) THEN <<>>
    ELSE IF ws[from].type = wallType
    THEN <<from>> \o IndicesOfType(ws, wallType, from + 1)
    ELSE IndicesOfType(ws, wallType, from + 1)

\* Game.shuffleWallsOfType: every registry the random permutation of the empty
\* cells can produce.  The k-th wall of the type takes the k-th cell of the
\* permuted list, walls beyond the end of the list stay.
shuffleWallsOfType(ws, wallType) ==
    LET wallsOfType == IndicesOfType(ws, wallType, 1)
        emptySpaces == {c \in Cells : isPositionEmpty(ws, c[1], c[2])}
        moved == IF Len(wallsOfType) < Cardinality(emptySpaces)
                 THEN Len(wallsOfType) ELSE Cardinality(emptySpaces)
        picks == {f \in [1..moved -> emptySpaces] :
                     \A a, b \in 1..moved : a # b => f[a] # f[b]}
    IN  IF Len(wallsOfType) < 2 THEN {ws}
        ELSE {[i \in 1..Len(ws) |->
                  IF \E k \in 1..moved : wallsOfType[k] = i
                  THEN LET k == CHOOSE k \in 1..moved : wallsOfType[k] = i
                       IN  [ws[i] EXCEPT !.gridX = f[k][1], !.gridY = f[k][2]]
                  ELSE ws[i]] : f \in picks}

ShuffleRules == {"BRICK_SHUFFLE", "WOOD_SHUFFLE", "IRON_SHUFFLE", "STEEL_SHUFFLE"}
ShuffleType(ruleId) ==
    CASE ruleId = "BRICK_SHUFFLE" -> "brick"
      [] ruleId = "WOOD_SHUFFLE" -> "wood"
      [] ruleId = "IRON_SHUFFLE" -> "iron"
      [] ruleId = "STEEL_SHUFFLE" -> "steel"

\* the <A>_TO_<B> rules of the table, all matched by the pattern of
\* applyRuleVisuals, and the wall types each names
TransformRules == {"STEEL_TO_EMERALD", "IRON_TO_STEEL", "STEEL_TO_IRON",
                   "WOOD_TO_IRON", "IRON_TO_WOOD", "LAPIS_TO_DIAMOND",
                   "GOLD_TO_LAPIS"}
TransformType(ruleId) ==
    CASE ruleId = "STEEL_TO_EMERALD" -> [from |-> "steel", to |-> "emerald"]
      [] ruleId = "IRON_TO_STEEL" -> [from |-> "iron", to |-> "steel"]
      [] ruleId = "STEEL_TO_IRON" -> [from |-> "steel", to |-> "iron"]
      [] ruleId = "WOOD_TO_IRON" -> [from |-> "wood", to |-> "iron"]
      [] ruleId = "IRON_TO_WOOD" -> [from |-> "iron", to |-> "wood"]
      [] ruleId = "LAPIS_TO_DIAMOND" -> [from |-> "lapis", to |-> "diamond"]
      [] ruleId = "GOLD_TO_LAPIS" -> [from |-> "gold", to |-> "lapis"]

\* a flash tween of transformWallType: its onComplete gives the wall its type
Flash(wall, toType) == [wall |-> wall, toType |-> toType]

\* Game.transformWallType: one flash tween for every wall that has the type
\* at the call, added to the tweens in flight
RECURSIVE FlashesFrom(_, _, _, _, _)
FlashesFrom(ws, flashes, fromType, toType, from) ==
    IF from > Len(ws) THEN flashes
    ELSE FlashesFrom(ws,
                     IF ws[from].type = fromType
                     THEN Put(flashes, Flash(from, toType)) ELSE flashes,
                     fromType, toType, from + 1)
transformWallType(ws, flashes, fromType, toType) ==
    FlashesFrom(ws, flashes, fromType, toType, 1)

applyRuleVisuals_levelTriggered(ruleId, active, st) ==
    IF ruleId \in ShuffleRules
    THEN IF active
         THEN {[st EXCEPT !.walls = w] :
                  w \in shuffleWallsOfType(st.walls, ShuffleType(ruleId))}
         ELSE {st}
    ELSE IF ruleId \in TransformRules
    THEN IF active
         THEN {[st EXCEPT !.flashes =
                   transformWallType(st.walls, st.flashes,
                                     TransformType(ruleId).from,
                                     TransformType(ruleId).to)]}
         ELSE {st}
    ELSE IF ruleId = "GATE_IS_OPEN"
    THEN {[st EXCEPT !.gates =
              [g \in 1..Len(st.gates) |-> [st.gates[g] EXCEPT !.isOpen = active]]]}
    ELSE {st}

\* Game.applyRuleVisuals on st = [walls, gates, flashes], with the value
\* isRuleActive(ruleId) has at the call: the states it can leave.
\* The is-air branches touch sprites only.
applyRuleVisuals(ruleId, active, st) ==
    IF ruleId \in ShuffleRules
    THEN IF active
         THEN {[st EXCEPT !.walls = w] :
                  w \in shuffleWallsOfType(st.walls, ShuffleType(ruleId))}
         ELSE {st}
    ELSE IF ruleId \in TransformRules
    THEN IF active
         THEN {[st EXCEPT !.flashes =
                   transformWallType(st.walls, st.flashes,
                                     TransformType(ruleId).from,
                                     TransformType(ruleId).to)]}
         ELSE {st}
    ELSE IF ruleId = "GATE_IS_OPEN" /\ active
    THEN {[st EXCEPT !.gates =
              [g \in 1..Len(st.gates) |-> [st.gates[g] EXCEPT !.isOpen = TRUE]]]}
    ELSE {st}

\* the 100 ms delayed call: UIManager.applyRuleEffect, that is
\* RuleManager.applyRiddleEffect (whose setRule, when it changes the value,
\* emits 'ruleChanged' to the listener of Game.setupRuleListeners) followed by
\* the onRuleApplied callback: applyRuleVisuals runs once or twice
FireApplyRuleEffect(t) ==
    /\ TurnOver
    /\ t.kind = "applyRuleEffect"
    /\ BagCardinality(wallTweens) < MaxFlashes
    /\ LET effect == t.effect
           set == applyRiddleEffect(effect)
           id == toUpperCase(effect.ruleId)
           active == id \in DOMAIN set.rules /\ set.rules[id]
           st0 == [walls |-> walls, gates |-> gates, flashes |-> wallTweens]
           heard == IF set.changed THEN applyRuleVisuals(id, active, st0) ELSE {st0}
           applied == UNION {applyRuleVisuals(effect.ruleId, active, st) : st \in heard}
       IN  /\ rules' = set.rules
           /\ history' = set.history
           /\ activeEffects' = set.activeEffects
           /\ \E st \in applied :
                 /\ walls' = st.walls
                 /\ gates' = st.gates
                 /\ wallTweens' = st.flashes
    /\ timers' = Take(timers, t)
    /\ UNCHANGED <<pushables, friend, player, lastResult, ui, tweens, push,
                   hasWon, gateOpened>>
    /\ UNCHANGED socketVars
    /\ UNCHANGED otherPush

\* RuleManager.undoLastChange called on the session's rule manager; the
\* listener of Game.setupRuleListeners hears its 'ruleChanged'
UndoLastChange ==
    /\ TurnOver
    /\ Len(history) > 0
    /\ BagCardinality(wallTweens) < MaxFlashes
    /\ LET lastChange == history[Len(history)]
           undone == undoLastChange(Manager)
           st0 == [walls |-> walls, gates |-> gates, flashes |-> wallTweens]
       IN  /\ rules' = undone.rules
           /\ history' = undone.history
           /\ \E st \in applyRuleVisuals(lastChange.ruleId,
                                         lastChange.previousValue, st0) :
                 /\ walls' = st.walls
                 /\ gates' = st.gates
                 /\ wallTweens' = st.flashes
    /\ UNCHANGED <<pushables, friend, player, lastResult, ui, timers, tweens,
                   push, hasWon, gateOpened>>
    /\ UNCHANGED socketVars
    /\ UNCHANGED activeEffects
    /\ UNCHANGED otherPush

\* the flash tween of a transformed wall completes: wall.type = toType
FlashTweenComplete(t) ==
    /\ TurnOver
    /\ walls' = [walls EXCEPT ![t.wall].type = t.toType]
    /\ wallTweens' = Take(wallTweens, t)
    /\ UNCHANGED <<rules, history, gates, pushables, friend, player, lastResult,
                   ui, timers, tweens, push, hasWon, gateOpened, activeEffects>>
    /\ UNCHANGED socketVars
    /\ UNCHANGED otherPush

Next ==
    \/ \E d \in Directions : TryMove(d)
    \/ PushTweenComplete
    \/ PushThen
    \/ PlayerTweenComplete
    \/ \E b \in Buttons(ui.currentRiddle) : AnswerClick(b)
    \/ PressEsc
    \/ \E t \in BagToSet(timers) : FireHideModal(t)
    \/ \E t \in BagToSet(tweens) : CloseTweenComplete(t)
    \/ \E t \in BagToSet(timers) : FireEnableInput(t)
    \/ \E t \in BagToSet(timers) : FireApplyRuleEffect(t)
    \/ UndoLastChange
    \/ \E t \in BagToSet(wallTweens) : FlashTweenComplete(t)

Spec == Init /\ [][Next]_vars

(***************************************************************************)
(* SpecModal: the riddle modal of a level with two riddle gates.  ESC may  *)
(* go down whenever a listener is registered, also between an answer click *)
(* and the close it delays; the bound on pending calls limits only the     *)
(* answer clicks.                                                          *)
(***************************************************************************)
InitModal ==
    /\ walls = LevelRiddles.walls
    /\ gates = LevelRiddles.gates
    /\ pushables = LevelRiddles.pushables
    /\ friend = LevelRiddles.friend
    /\ player = LevelRiddles.player
    /\ sockets = LevelRiddles.sockets
    /\ specialWalls = LevelRiddles.specialWalls
    /\ rules = DefaultRules
    /\ history = <<>>
    /\ lastResult = NoCall
    /\ ui = NoUI
    /\ timers = EmptyBag
    /\ tweens = EmptyBag
    /\ push = NoPushChain
    /\ hasWon = FALSE
    /\ gateOpened = [g \in 1..Len(gates) |-> 0]
    /\ specialRegistry = registerSpecialWalls(specialWalls)
    /\ activeEffects = {}
    /\ wallTweens = EmptyBag
    /\ otherPush = NoOtherPush

NextModal ==
    \/ \E d \in Directions : TryMove(d)
    \/ PlayerTweenComplete
    \/ \E b \in Buttons(ui.currentRiddle) : AnswerClick(b)
    \/ EscDown
    \/ \E t \in BagToSet(timers) : FireHideModal(t)
    \/ \E t \in BagToSet(tweens) : CloseTweenComplete(t)
    \/ \E t \in BagToSet(timers) : FireEnableInput(t)
    \/ \E t \in BagToSet(timers) : FireApplyRuleEffect(t)

SpecModal == InitModal /\ [][NextModal]_vars

(***************************************************************************)
(* SpecMoves: Player, Pushable and GridPhysics as a unit.  tryMove is      *)
(* called as Game.update calls it; Pushable.push is also called by another *)
(* caller, so that the player can meet a pushable that is already moving.  *)
(* Every tween that was started completes and every queued promise handler *)
(* runs: weak fairness of the completion steps.                            *)
(***************************************************************************)
LevelMoves ==
    [walls |-> <<Wall(<<3, 0>>, "steel")>> \o Margin,
     gates |-> <<>>,
     pushables |-> <<Pushable(<<1, 0>>), Pushable(<<2, 1>>)>>,
     friend |-> <<>>,
     player |-> PlayerAt(<<0, 0>>),
     sockets |-> <<>>,
     specialWalls |-> <<>>]

InitMoves ==
    /\ walls = LevelMoves.walls
    /\ gates = LevelMoves.gates
    /\ pushables = LevelMoves.pushables
    /\ friend = LevelMoves.friend
    /\ player = LevelMoves.player
    /\ sockets = LevelMoves.sockets
    /\ specialWalls = LevelMoves.specialWalls
    /\ rules = DefaultRules
    /\ history = <<>>
    /\ lastResult = NoCall
    /\ ui = NoUI
    /\ timers = EmptyBag
    /\ tweens = EmptyBag
    /\ push = NoPushChain
    /\ hasWon = FALSE
    /\ gateOpened = [g \in 1..Len(gates) |-> 0]
    /\ specialRegistry = registerSpecialWalls(specialWalls)
    /\ activeEffects = {}
    /\ wallTweens = EmptyBag
    /\ otherPush = NoOtherPush

NextMoves ==
    \/ \E d \in Directions : TryMove(d)
    \/ PushTweenComplete
    \/ PushThen
    \/ PushCatch
    \/ PlayerTweenComplete
    \/ \E i \in 1..Len(pushables), d \in Directions : OtherPush(i, d)
    \/ OtherPushComplete

SpecMoves ==
    /\ InitMoves
    /\ [][NextMoves]_vars
    /\ WF_vars(PushTweenComplete)
    /\ WF_vars(PushThen)
    /\ WF_vars(PushCatch)
    /\ WF_vars(PlayerTweenComplete)
    /\ WF_vars(OtherPushComplete)

(***************************************************************************)
(* SpecRules: a RuleManager on its own.  Every step is one call of a      *)
(* public method; lastResult holds the call, its arguments, the value it   *)
(* returned and the events it emitted.                                     *)
(***************************************************************************)
\* rule ids passed in: known ones as stored, known ones in another case, an
\* unknown one
RuleArgs == {"GATE_IS_OPEN", "gate_is_open", "FRIEND_IS_GOAL", "Brick_Is_Air",
             "wall_is_lava"}
OptionArgs == {NoOptions, Options("debug", FALSE), Options("", TRUE)}
\* effects passed in: on a known rule, on an unknown one, without a ruleId,
\* and null
EffectArgs ==
    {Effect(r, v) : r \in {"gate_is_open", "wall_is_lava", ""}, v \in BOOLEAN}
        \cup {NoEffect}

Call(name, args, returned, events) ==
    [call |-> name, args |-> args, returned |-> returned, events |-> events]

\* new RuleManager()
InitRules ==
    /\ rules = DefaultRules
    /\ history = <<>>
    /\ activeEffects = {}
    /\ wallTweens = EmptyBag
    /\ otherPush = NoOtherPush
    /\ walls = <<>>
    /\ gates = <<>>
    /\ pushables = <<>>
    /\ friend = <<>>
    /\ player = PlayerAt(<<0, 0>>)
    /\ lastResult = NoCall
    /\ ui = NoUI
    /\ timers = EmptyBag
    /\ tweens = EmptyBag
    /\ push = NoPushChain
    /\ hasWon = FALSE
    /\ gateOpened = <<>>
    /\ sockets = <<>>
    /\ specialWalls = <<>>
    /\ specialRegistry = {}

\* the manager after a call
Becomes(out) ==
    /\ Len(out.history) <= MaxHistory
    /\ rules' = out.rules
    /\ history' = out.history
    /\ activeEffects' = out.activeEffects
    /\ UNCHANGED <<physVars, sessionVars, socketVars, wallTweens, otherPush>>

CallSetRule(ruleId, isActive, options) ==
    LET out == setRule(ruleId, isActive, options)
    IN  /\ Becomes(out)
        /\ lastResult' = Call("setRule", <<ruleId, isActive, options>>,
                              out.changed, out.events)

CallToggleRule(ruleId) ==
    LET out == toggleRule(ruleId)
    IN  /\ Becomes(out)
        /\ lastResult' = Call("toggleRule", <<ruleId>>, out.changed, out.events)

CallApplyRiddleEffect(effect) ==
    LET out == applyRiddleEffect(effect)
    IN  /\ Becomes(out)
        /\ lastResult' = Call("applyRiddleEffect", <<effect>>, <<>>, out.events)

CallUndoLastChange ==
    LET out == undoLastChange(Manager)
    IN  /\ Becomes(out)
        /\ lastResult' = Call("undoLastChange", <<>>, out.changed, out.events)

CallReset ==
    LET out == reset(Manager)
    IN  /\ Becomes(out)
        /\ lastResult' = Call("reset", <<>>, <<>>, out.events)

CallIsRuleActive(ruleId) ==
    /\ lastResult' = Call("isRuleActive", <<ruleId>>, isRuleActive(ruleId), <<>>)
    /\ UNCHANGED <<ruleVars, activeEffects, physVars, sessionVars, socketVars,
                   wallTweens, otherPush>>

NextRules ==
    \/ \E ruleId \in RuleArgs, isActive \in BOOLEAN, options \in OptionArgs :
          CallSetRule(ruleId, isActive, options)
    \/ \E ruleId \in RuleArgs : CallToggleRule(ruleId)
    \/ \E effect \in EffectArgs : CallApplyRiddleEffect(effect)
    \/ CallUndoLastChange
    \/ CallReset
    \/ \E ruleId \in RuleArgs : CallIsRuleActive(ruleId)

SpecRules == InitRules /\ [][NextRules]_vars

(***************************************************************************)
(* SpecTypes: GridPhysics queried while the is-air rules of the wall types *)
(* change.  The registries hold walls of several types; a step is a       *)
(* RuleManager.setRule on one <TYPE>_IS_AIR rule or one of the two queries *)
(* of SpecPhysics.                                                         *)
(***************************************************************************)
TypeAirRules == {"BRICK_IS_AIR", "WOOD_IS_AIR", "IRON_IS_AIR"}
TypedWallLayouts ==
    {<<Wall(c, t)>> : c \in LayoutCells, t \in {"brick", "wood", "iron"}}
        \cup {<<Wall(NearCell, "wood"), Wall(FarCell, "iron")>>}

InitTypes ==
    /\ \E on \in SUBSET {"WALL_IS_AIR", "PLAYER_IS_GHOST"} :
          rules = [r \in RuleIds |->
                      IF r \in {"WALL_IS_AIR", "PLAYER_IS_GHOST"}
                      THEN r \in on ELSE DefaultRules[r]]
    /\ history = <<>>
    /\ activeEffects = {}
    /\ walls \in TypedWallLayouts
    /\ gates = <<>>
    /\ pushables \in PhysPushableLayouts
    /\ friend = <<>>
    /\ \E c \in PhysPlayerCells : player = PlayerAt(c)
    /\ lastResult = NoCall
    /\ ui = NoUI
    /\ timers = EmptyBag
    /\ tweens = EmptyBag
    /\ push = NoPushChain
    /\ hasWon = FALSE
    /\ gateOpened = <<>>
    /\ sockets = <<>>
    /\ specialWalls = <<>>
    /\ specialRegistry = {}
    /\ wallTweens = EmptyBag
    /\ otherPush = NoOtherPush

\* RuleManager.setRule on an is-air rule of a wall type
SetTypeAir(ruleId, isActive) ==
    LET out == setRule(ruleId, isActive, NoOptions)
    IN  /\ out.changed
        /\ Len(out.history) <= MaxHistory
        /\ rules' = out.rules
        /\ history' = out.history
        /\ UNCHANGED <<physVars, lastResult, sessionVars, socketVars,
                       activeEffects, wallTweens, otherPush>>

NextTypes ==
    \/ \E ruleId \in TypeAirRules, isActive \in BOOLEAN : SetTypeAir(ruleId, isActive)
    \/ \E d \in Directions : QueryMove(d)
    \/ \E i \in 1..Len(pushables), d \in Directions : QueryPush(i, d)

SpecTypes == InitTypes /\ [][NextTypes]_vars

(***************************************************************************)
(* Claims about GridPhysics, checked under SpecPhysics (C1 - C4, C7)        *)
(***************************************************************************)
\* the grid and the ring of cells around it
TargetCells == ((-1)..gridWidth) \X ((-1)..gridHeight)
OutsideCells == TargetCells \ Cells
EntityTypes == {"player", "friend"}

\* C1: a target cell outside the grid is blocked(out_of_bounds) for every
\* mover kind, every rule state and every registry
C1_OutOfBoundsBlocked ==
    /\ \A t \in OutsideCells, e \in EntityTypes :
          canMoveTo(player.gridX, player.gridY, t[1], t[2], e) = Blocked("out_of_bounds")
    /\ (lastResult.call = "canMoveTo" /\ ~InBounds(lastResult.toX, lastResult.toY))
          => lastResult.move = Blocked("out_of_bounds")

\* a canMoveTo call out of the grid was answered while the player is a ghost
\* and all walls are air
C1_Witness ==
    /\ lastResult.call = "canMoveTo"
    /\ ~InBounds(lastResult.toX, lastResult.toY)
    /\ rules["PLAYER_IS_GHOST"] /\ rules["WALL_IS_AIR"]
    /\ lastResult.move.reason = "out_of_bounds"

\* the is-air rule of a wall type
TypeAirRule(t) ==
    CASE t = "brick" -> "BRICK_IS_AIR"
      [] t = "wood" -> "WOOD_IS_AIR"
      [] t = "iron" -> "IRON_IS_AIR"
      [] t = "steel" -> "STEEL_IS_AIR"
      [] t = "emerald" -> "EMERALD_IS_AIR"
      [] t = "gold" -> "GOLD_IS_AIR"
      [] t = "diamond" -> "DIAMOND_IS_AIR"
      [] t = "lapis" -> "LAPIS_IS_AIR"
      [] t = "quartz" -> "QUARTZ_IS_AIR"

\* the cell holds a wall and nothing else
OnlyWallAt(x, y) ==
    /\ isWallAt(x, y)
    /\ \A i \in 1..Len(gates) : ~(gates[i].gridX = x /\ gates[i].gridY = y)
    /\ getPushableAt(x, y) = 0
    /\ ~friendIsAt(x, y)

\* C2: with WALL_IS_AIR and PLAYER_IS_GHOST inactive, a cell holding only a
\* wall of type T is blocked(wall) while T_IS_AIR is inactive and is a plain
\* move while T_IS_AIR is active
C2_TypeAirOpensWall ==
    \A i \in 1..Len(walls) :
        LET w == walls[i]
            res == canMoveTo(player.gridX, player.gridY, w.gridX, w.gridY, "player")
        IN  (OnlyWallAt(w.gridX, w.gridY) /\ ~rules["WALL_IS_AIR"]
                /\ ~rules["PLAYER_IS_GHOST"])
            => IF isRuleActive(TypeAirRule(w.type))
               THEN res.action = "move"
               ELSE res = Blocked("wall")

\* C3: a ghost is never blocked by a wall or a failed push and never meets
\* a gate, at any in-bounds target
C3_GhostSupremacy ==
    rules["PLAYER_IS_GHOST"] =>
        /\ \A t \in Cells, e \in EntityTypes :
              LET res == canMoveTo(player.gridX, player.gridY, t[1], t[2], e)
              IN  /\ ~(res.action = "blocked" /\ res.reason \in {"wall", "push_failed"})
                  /\ res.action # "gate"
        /\ (lastResult.call = "canMoveTo" /\ InBounds(lastResult.toX, lastResult.toY))
              => /\ ~(lastResult.move.action = "blocked"
                      /\ lastResult.move.reason \in {"wall", "push_failed"})
                 /\ lastResult.move.action # "gate"

\* a ghost's canMoveTo call into a cell holding a wall, a closed gate and a
\* pushable was answered
C3_Witness ==
    /\ rules["PLAYER_IS_GHOST"] /\ ~rules["WALL_IS_AIR"] /\ ~rules["GATE_IS_OPEN"]
    /\ lastResult.call = "canMoveTo"
    /\ isWallAt(lastResult.toX, lastResult.toY)
    /\ getGateAt(lastResult.toX, lastResult.toY) # 0
    /\ getPushableAt(lastResult.toX, lastResult.toY) # 0
    /\ lastResult.move.allowed

\* the rule state under which the spec lets a wall be passed: the universal
\* rule or the rule of the wall's type
WallIsAirFor(t) == isRuleActive("WALL_IS_AIR") \/ isRuleActive(TypeAirRule(t))

NonAirWallAt(x, y) ==
    \E i \in 1..Len(walls) :
        walls[i].gridX = x /\ walls[i].gridY = y /\ ~WallIsAirFor(walls[i].type)

ClosedGateAt(x, y) ==
    \E i \in 1..Len(gates) :
        gates[i].gridX = x /\ gates[i].gridY = y /\ ~gates[i].isOpen

\* the decision procedure of the claim: <<action, reason>> of the first
\* matching check
Resolve(fromX, fromY, toX, toY, entityType) ==
    IF ~InBounds(toX, toY) THEN <<"blocked", "out_of_bounds">>
    ELSE IF ~isRuleActive("PLAYER_IS_GHOST") /\ NonAirWallAt(toX, toY)
    THEN <<"blocked", "wall">>
    ELSE IF ~isRuleActive("PLAYER_IS_GHOST") /\ ClosedGateAt(toX, toY)
            /\ ~isRuleActive("GATE_IS_OPEN")
    THEN <<"gate", "none">>
    ELSE IF friendIsAt(toX, toY) /\ isRuleActive("FRIEND_IS_GOAL")
    THEN <<"win", "none">>
    ELSE IF ~isRuleActive("PLAYER_IS_GHOST") /\ getPushableAt(toX, toY) # 0
            /\ entityType = "player"
    THEN IF isRuleActive("PUSH_IS_DISABLED") THEN <<"blocked", "push_disabled">>
         ELSE IF canPush(toX, toY, toX - fromX, toY - fromY).allowed
         THEN <<"push", "none">>
         ELSE <<"blocked", "push_failed">>
    ELSE <<"move", "none">>

\* C4: the result of canMoveTo is the outcome of the first matching check of
\* the fixed order bounds, wall, gate, win, pushable, move
C4_FirstMatchWins ==
    \A t \in TargetCells, e \in EntityTypes :
        LET res == canMoveTo(player.gridX, player.gridY, t[1], t[2], e)
        IN  <<res.action, res.reason>>
                = Resolve(player.gridX, player.gridY, t[1], t[2], e)

\* C7: canPush allows exactly when the cell behind the pushable is in bounds,
\* holds no wall that is not air, no closed gate unless GATE_IS_OPEN is
\* active, and no pushable; the target it returns is that cell
PushTargetFree(x, y) ==
    /\ InBounds(x, y)
    /\ ~NonAirWallAt(x, y)
    /\ ~(ClosedGateAt(x, y) /\ ~isRuleActive("GATE_IS_OPEN"))
    /\ getPushableAt(x, y) = 0

C7_CanPushExactly ==
    \A i \in 1..Len(pushables), d \in Directions :
        LET p == pushables[i]
            res == canPush(p.gridX, p.gridY, d[1], d[2])
        IN  /\ res.allowed <=> PushTargetFree(p.gridX + d[1], p.gridY + d[2])
            /\ res.allowed =>
                  (res.targetX = p.gridX + d[1] /\ res.targetY = p.gridY + d[2])

(***************************************************************************)
(* Claims about a level session, checked under Spec (C5, C6, C8 - C10)     *)
(***************************************************************************)
PlayerCell == <<player.gridX, player.gridY>>
Step(c, d, n) == <<c[1] + n * d[1], c[2] + n * d[2]>>
PlayerQuery(d) ==
    canMoveTo(player.gridX, player.gridY,
              player.gridX + d[1], player.gridY + d[2], "player")

\* a pushable right ahead of the player and another one right behind it
ChainAhead(d) ==
    /\ getPushableAt(Step(PlayerCell, d, 1)[1], Step(PlayerCell, d, 1)[2]) # 0
    /\ getPushableAt(Step(PlayerCell, d, 2)[1], Step(PlayerCell, d, 2)[2]) # 0

\* none of the checks canMoveTo makes before the pushable check decides the
\* query for cell (x, y), and pushing is not disabled
ReachesPushCheck(x, y) ==
    /\ ~isRuleActive("PLAYER_IS_GHOST")
    /\ ~isRuleActive("PUSH_IS_DISABLED")
    /\ ~(isWallAt(x, y) /\ ~isRuleActive("WALL_IS_AIR"))
    /\ ~(getGateAt(x, y) # 0 /\ ~isRuleActive("GATE_IS_OPEN"))
    /\ ~(friendIsAt(x, y) /\ isRuleActive("FRIEND_IS_GOAL"))

FreeCell(c) ==
    /\ InBounds(c[1], c[2])
    /\ ~isWallAt(c[1], c[2])
    /\ \A g \in 1..Len(gates) : ~(gates[g].gridX = c[1] /\ gates[g].gridY = c[2])
    /\ getPushableAt(c[1], c[2]) = 0

\* the scenario of C6 for direction d: a pushable ahead, a free cell behind
\* it, neither PLAYER_IS_GHOST nor PUSH_IS_DISABLED active
PushScenario(d) ==
    /\ getPushableAt(Step(PlayerCell, d, 1)[1], Step(PlayerCell, d, 1)[2]) # 0
    /\ FreeCell(Step(PlayerCell, d, 2))
    /\ ~isRuleActive("PLAYER_IS_GHOST")
    /\ ~isRuleActive("PUSH_IS_DISABLED")

PushOutcome(d) ==
    MoveResult(TRUE, "push", "none", 0,
               getPushableAt(Step(PlayerCell, d, 1)[1], Step(PlayerCell, d, 1)[2]),
               d[1], d[2],
               Step(PlayerCell, d, 2)[1], Step(PlayerCell, d, 2)[2])

\* the course of Player.executePush: the player stays in its cell while the
\* pushable is under way, the pushable takes the target cell when its tween
\* completes, and only then the player takes the cell the pushable left
PushCourse ==
    /\ push.stage = "tween" =>
          /\ player'.gridX = player.gridX /\ player'.gridY = player.gridY
          /\ push' = push \/ push' = [push EXCEPT !.stage = "resolved"]
          /\ push'.stage = "resolved" =>
                /\ pushables'[push.pushable].gridX = push.targetX
                /\ pushables'[push.pushable].gridY = push.targetY
                /\ ~(player'.gridX = push.newX /\ player'.gridY = push.newY)
    /\ push.stage = "resolved" =>
          /\ push' = NoPushChain
          /\ player'.gridX = push.newX /\ player'.gridY = push.newY
          /\ pushables' = pushables
          /\ pushables[push.pushable].gridX = push.targetX
          /\ pushables[push.pushable].gridY = push.targetY

PushStart(d) ==
    TryMove(d) =>
       /\ push' = [stage |-> "tween",
                   pushable |-> PushOutcome(d).pushable,
                   targetX |-> Step(PlayerCell, d, 2)[1],
                   targetY |-> Step(PlayerCell, d, 2)[2],
                   newX |-> Step(PlayerCell, d, 1)[1],
                   newY |-> Step(PlayerCell, d, 1)[2]]
       /\ player'.gridX = player.gridX /\ player'.gridY = player.gridY
       /\ \A i \in 1..Len(pushables) :
             pushables'[i].gridX = pushables[i].gridX
                /\ pushables'[i].gridY = pushables[i].gridY

\* C6 as stated: with the player at c, a pushable at c+d, a free cell at c+2d
\* and no blocking rule, canMoveTo returns push towards c+2d; executePush then
\* puts the pushable on c+2d and after that the player on c+d
C6_PushScenario ==
    /\ [](\A d \in Directions : PushScenario(d) => PlayerQuery(d) = PushOutcome(d))
    /\ [][(\A d \in Directions : PushScenario(d) => PushStart(d)) /\ PushCourse]_vars

\* C6 as it holds: the same, provided no earlier check of canMoveTo decides
\* the query for c+d (no wall there unless WALL_IS_AIR, no closed gate there
\* unless GATE_IS_OPEN, not the friend while FRIEND_IS_GOAL is active)
C6_Push ==
    /\ [](\A d \in Directions :
             (PushScenario(d)
                /\ ReachesPushCheck(Step(PlayerCell, d, 1)[1], Step(PlayerCell, d, 1)[2]))
             => PlayerQuery(d) = PushOutcome(d))
    /\ [][/\ \A d \in Directions :
                (PushScenario(d)
                   /\ ReachesPushCheck(Step(PlayerCell, d, 1)[1],
                                       Step(PlayerCell, d, 1)[2]))
                => PushStart(d)
          /\ PushCourse]_vars

\* the pushable has taken its target cell and the player has not moved yet
C6_Witness ==
    /\ push.stage = "resolved"
    /\ pushables[push.pushable].gridX = push.targetX
    /\ pushables[push.pushable].gridY = push.targetY
    /\ player.gridX = 2 * push.newX - push.targetX
    /\ player.gridY = 2 * push.newY - push.targetY

OtherPushableAt(i) ==
    \E j \in 1..Len(pushables) :
        j # i /\ pushables[j].gridX = pushables[i].gridX
              /\ pushables[j].gridY = pushables[i].gridY

\* C8 as stated: the cell of a pushable never holds a wall, a closed gate or
\* another pushable
C8_PushableCellFree ==
    \A i \in 1..Len(pushables) :
        /\ ~isWallAt(pushables[i].gridX, pushables[i].gridY)
        /\ ~ClosedGateAt(pushables[i].gridX, pushables[i].gridY)
        /\ ~OtherPushableAt(i)

\* C8 as it holds: the cell of a pushable is in the grid and never holds a
\* closed gate or another pushable (it can hold a wall)
C8_PushableCellNoGateNoPushable ==
    \A i \in 1..Len(pushables) :
        /\ InBounds(pushables[i].gridX, pushables[i].gridY)
        /\ ~ClosedGateAt(pushables[i].gridX, pushables[i].gridY)
        /\ ~OtherPushableAt(i)

\* a rule has been set and a pushable has just been relocated
C8_Witness ==
    /\ Len(history) > 0
    /\ push.stage = "resolved"

Opens(g) == ~gates[g].isOpen /\ gates'[g].isOpen

\* the step completes a close tween that hideModal(true) started, with g the
\* current gate
SolvedClose(g) ==
    /\ ui.currentGate = g
    /\ \E t \in BagToSet(tweens) : t.answeredCorrectly /\ tweens' = Take(tweens, t)

\* a gate opens only with GATE_IS_OPEN active or at the end of a close that
\* was asked to open it
OpensOnlyBySolvedClose ==
    \A g \in 1..Len(gates) :
        Opens(g) => (isRuleActive("GATE_IS_OPEN")' \/ SolvedClose(g))

OpeningCall == Timer("hideModal", TRUE, NoEffect)

\* a close that opens the gate starts only when a delayed hideModal(true)
\* fires: never from ESC, never from the delayed hideModal(false)
SolvedCloseOnlyFromOpeningCall ==
    \A t \in BagToSet(tweens') :
        (t.answeredCorrectly /\ CopiesIn(t, tweens') > CopiesIn(t, tweens))
        => CopiesIn(OpeningCall, timers') < CopiesIn(OpeningCall, timers)

C10_OpenGateStaysOpen ==
    /\ [](\A g \in 1..Len(gates), e \in EntityTypes :
             gates[g].isOpen =>
                canMoveTo(player.gridX, player.gridY,
                          gates[g].gridX, gates[g].gridY, e).action # "gate")
    /\ [][\A g \in 1..Len(gates) :
             gates[g].isOpen =>
                (gates'[g].isOpen /\ gateOpened'[g] = gateOpened[g])]_vars

\* a close asked to open the current gate is under way and that gate is open
\* already: openGate is about to be called on an open gate
C10_Witness ==
    /\ ui.currentGate # 0
    /\ gates[ui.currentGate].isOpen
    /\ \E t \in BagToSet(tweens) : t.answeredCorrectly

(***************************************************************************)
(* Claims about sockets and special walls, checked under Spec (C11 - C14)  *)
(***************************************************************************)
\* the step fills socket s
Fills(s) == ~sockets[s].isFilled /\ sockets'[s].isFilled

\* the step completes the relocation of a pushable onto the cell of socket s
Lands(s) ==
    /\ push.stage = "tween" /\ push'.stage = "resolved"
    /\ push.targetX = sockets[s].gridX /\ push.targetY = sockets[s].gridY
    /\ pushables'[push.pushable].gridX = sockets[s].gridX
    /\ pushables'[push.pushable].gridY = sockets[s].gridY

NoLinks == \A s \in 1..Len(sockets) : sockets[s].unlocksWall = <<>>

\* C11: in a level whose sockets declare no linked wall every special wall is
\* locked while a socket is unfilled, and the step that fills the last
\* unfilled socket leaves every special wall unlocked
C11_FallbackUnlocksAllAtLast ==
    /\ []((NoLinks /\ \E s \in 1..Len(sockets) : ~sockets[s].isFilled)
             => \A w \in 1..Len(specialWalls) : ~specialWalls[w].isUnlocked)
    /\ [][NoLinks =>
             \A s \in 1..Len(sockets) :
                (Fills(s) /\ \A o \in 1..Len(sockets) : sockets'[o].isFilled)
                => \A w \in 1..Len(specialWalls) : specialWalls'[w].isUnlocked]_vars

\* two unlinked sockets are filled, the first one has been left by the
\* pushable, and both special walls are unlocked
C11_Witness ==
    /\ Len(sockets) = 2 /\ NoLinks
    /\ \A s \in 1..Len(sockets) : sockets[s].isFilled
    /\ Len(specialWalls) = 2
    /\ \A w \in 1..Len(specialWalls) : specialWalls[w].isUnlocked

\* the special walls at the cell a socket's unlocksWall names
LinkedWalls(s) ==
    {w \in 1..Len(specialWalls) :
        /\ specialWalls[w].gridX = sockets[s].unlocksWall[1].col
        /\ specialWalls[w].gridY = sockets[s].unlocksWall[1].row}

\* C12: the step that fills a socket with a linked special wall leaves that
\* wall unlocked, whatever the other sockets are, and changes no other
\* special wall
C12_LinkedUnlocksExactlyThatWall ==
    [][\A s \in 1..Len(sockets) :
          (Fills(s) /\ sockets[s].unlocksWall # <<>>) =>
             /\ \A w \in LinkedWalls(s) : specialWalls'[w].isUnlocked
             /\ \A w \in (1..Len(specialWalls)) \ LinkedWalls(s) :
                   specialWalls'[w] = specialWalls[w]]_vars

\* of two linked sockets the second one is filled after the first, and each
\* has unlocked its wall: the first while the other socket was unfilled, the
\* second while the other was filled
C12_Witness ==
    /\ Len(sockets) = 2
    /\ \A s \in 1..Len(sockets) : sockets[s].unlocksWall # <<>> /\ sockets[s].isFilled
    /\ \A w \in 1..Len(specialWalls) : specialWalls[w].isUnlocked

\* C13: a socket starts unfilled, is filled exactly by the step in which a
\* pushable's relocation onto its cell completes, stays filled from then on,
\* and activateSocket runs at most once on it
C13_SocketFilledOnceByLanding ==
    /\ \A s \in 1..Len(sockets) : ~sockets[s].isFilled /\ sockets[s].activations = 0
    /\ [][\A s \in 1..Len(sockets) :
             /\ sockets[s].isFilled => sockets'[s].isFilled
             /\ Fills(s) => Lands(s)
             /\ (Lands(s) /\ ~sockets[s].isFilled) => sockets'[s].isFilled
             /\ sockets'[s].activations =
                   IF Fills(s) THEN 1 ELSE sockets[s].activations
             /\ sockets'[s].activations <= 1]_vars

\* a pushable is on its way onto the cell of a socket that was filled
\* before and has been left since
C13_Witness ==
    /\ push.stage = "tween"
    /\ \E s \in 1..Len(sockets) :
          /\ sockets[s].isFilled
          /\ push.targetX = sockets[s].gridX /\ push.targetY = sockets[s].gridY

\* a wall of Game.walls stands on the cell
PlainWallAt(x, y) ==
    \E i \in 1..Len(walls) : walls[i].gridX = x /\ walls[i].gridY = y

\* a move of either mover kind into (x, y) from the neighbouring cells, and
\* a push into (x, y), are refused because of a wall
WallBlocks(x, y) ==
    \A d \in Directions :
        /\ \A e \in EntityTypes :
              canMoveTo(x - d[1], y - d[2], x, y, e) = Blocked("wall")
        /\ ~canPush(x - d[1], y - d[2], d[1], d[2]).allowed
        /\ canPush(x - d[1], y - d[2], d[1], d[2]).reason = "wall"

\* no move into (x, y) and no push into (x, y) is refused because of a wall
NoWallBlocks(x, y) ==
    \A d \in Directions :
        /\ \A e \in EntityTypes :
              canMoveTo(x - d[1], y - d[2], x, y, e) # Blocked("wall")
        /\ canPush(x - d[1], y - d[2], d[1], d[2]).reason # "wall"

C15_WinOnlyWhileFriendIsGoal ==
    /\ [](\A d \in Directions :
             PlayerQuery(d).action = "win"
                => /\ friendIsAt(player.gridX + d[1], player.gridY + d[2])
                   /\ isRuleActive("FRIEND_IS_GOAL"))
    /\ [][(~hasWon /\ hasWon')
             => /\ isRuleActive("FRIEND_IS_GOAL")
                /\ \E d \in Directions : TryMove(d) /\ PlayerQuery(d).action = "win"]_vars

(***************************************************************************)
(* Claims about RuleManager, checked under SpecRules (C16 - C20)            *)
(***************************************************************************)
\* the ids of RuleArgs that name a rule of the table when case is ignored,
\* and the rule each of them names
KnownArgs == {"GATE_IS_OPEN", "gate_is_open", "FRIEND_IS_GOAL", "Brick_Is_Air"}
RuleOf(ruleId) ==
    CASE ruleId \in {"GATE_IS_OPEN", "gate_is_open"} -> "GATE_IS_OPEN"
      [] ruleId = "FRIEND_IS_GOAL" -> "FRIEND_IS_GOAL"
      [] ruleId = "Brick_Is_Air" -> "BRICK_IS_AIR"

\* the step is a call of the method with these arguments
Called(name, args) == lastResult'.call = name /\ lastResult'.args = args

\* the 'ruleChanged' and rule:<ID> events among a sequence of events
RuleEvents(events) ==
    {i \in 1..Len(events) : events[i].name \in {"ruleChanged", "rule:"}}

\* C16: setRule(ruleId, v) on a known rule (case ignored) whose value is v
\* already returns false, changes neither the table nor the history and
\* emits nothing; when the value differs it returns true, stores v, appends
\* exactly one record {ruleId, previousValue, newValue, timestamp, source}
\* to the history and emits 'ruleChanged' and then rule:<ID>.
C16_SetRuleRecordsOnlyChanges ==
    [][\A ruleId \in KnownArgs, v \in BOOLEAN, options \in OptionArgs :
          (~options.silent /\ Called("setRule", <<ruleId, v, options>>))
             => LET id == RuleOf(ruleId)
                    events == lastResult'.events
                IN  IF rules[id] = v
                    THEN /\ lastResult'.returned = FALSE
                         /\ rules' = rules
                         /\ history' = history
                         /\ events = <<>>
                    ELSE /\ lastResult'.returned = TRUE
                         /\ rules' = [rules EXCEPT ![id] = v]
                         /\ Len(history') = Len(history) + 1
                         /\ SubSeq(history', 1, Len(history)) = history
                         /\ LET record == history'[Len(history')]
                            IN  /\ DOMAIN record = {"ruleId", "previousValue",
                                                    "newValue", "timestamp", "source"}
                                /\ record.ruleId = id
                                /\ record.previousValue = rules[id]
                                /\ record.newValue = v
                         /\ Len(events) = 2
                         /\ events[1].name = "ruleChanged"
                         /\ events[1].ruleId = id
                         /\ events[1].isActive = v
                         /\ events[1].previousValue = rules[id]
                         /\ events[2] = [name |-> "rule:", ruleId |-> id,
                                         isActive |-> v]]_vars

\* a second effective setRule, called with an id in another case
C16_Witness ==
    /\ lastResult.call = "setRule"
    /\ lastResult.args[1] = "gate_is_open"
    /\ ~lastResult.args[3].silent
    /\ lastResult.returned = TRUE
    /\ Len(history) = 2
    /\ history[2].ruleId = "GATE_IS_OPEN"

\* the ids of RuleArgs that name no rule of the table
UnknownArgs == RuleArgs \ KnownArgs

\* C17: a rule id that is not in the table, passed to setRule, toggleRule or
\* applyRiddleEffect, is rejected: no value of the table changes, the table
\* gets no new key, the history gets no record and neither 'ruleChanged' nor
\* rule:<ID> is emitted.
C17_UnknownRuleRejected ==
    [][\A ruleId \in UnknownArgs :
          (\/ \E v \in BOOLEAN, options \in OptionArgs :
                 Called("setRule", <<ruleId, v, options>>)
           \/ Called("toggleRule", <<ruleId>>)
           \/ \E v \in BOOLEAN : Called("applyRiddleEffect", <<Effect(ruleId, v)>>))
             => /\ DOMAIN rules' = DOMAIN rules
                /\ rules' = rules
                /\ history' = history
                /\ RuleEvents(lastResult'.events) = {}
                /\ lastResult'.call = "setRule" => lastResult'.returned = FALSE]_vars

\* applyRiddleEffect has been called with an effect on an unknown rule, after
\* a change of a known one
C17_Witness ==
    /\ lastResult.call = "applyRiddleEffect"
    /\ lastResult.args[1].ruleId \in UnknownArgs
    /\ lastResult.args[1].ruleId \in activeEffects
    /\ Len(history) > 0

\* what isRuleActive is to answer for an id of RuleArgs
StoredValue(ruleId) ==
    IF ruleId \in KnownArgs THEN rules[RuleOf(ruleId)] ELSE FALSE

\* C18: isRuleActive(ruleId) returns the stored value of a known rule (case
\* ignored) and false for a string that names no rule, and the call changes
\* nothing of the manager.
C18_IsRuleActiveReadsTable ==
    /\ [](\A ruleId \in RuleArgs : isRuleActive(ruleId) = StoredValue(ruleId))
    /\ [][\A ruleId \in RuleArgs :
             Called("isRuleActive", <<ruleId>>)
                => /\ lastResult'.returned = StoredValue(ruleId)
                   /\ UNCHANGED <<rules, history, activeEffects>>]_vars

\* a rule set active has been asked for by its id in mixed case
C18_Witness ==
    /\ lastResult.call = "isRuleActive"
    /\ lastResult.args = <<"Brick_Is_Air">>
    /\ lastResult.returned = TRUE
    /\ ~rules["GATE_IS_OPEN"]

\* undoLastChange called on the manager rm until its history is empty
RECURSIVE UndoAll(_)
UndoAll(rm) ==
    IF Len(rm.history) = 0 THEN rm ELSE UndoAll(undoLastChange(rm))

\* C19: undoLastChange returns false and changes nothing when the history is
\* empty; otherwise it removes the most recent record of the history, and
\* that one only, and restores the rule of the record to its previousValue,
\* every other rule staying as it is.  So undoing every recorded change
\* gives back the table the manager started with, with an empty history.
C19_UndoRevertsLastChange ==
    /\ [][Called("undoLastChange", <<>>)
             => IF Len(history) = 0
                THEN /\ lastResult'.returned = FALSE
                     /\ lastResult'.events = <<>>
                     /\ UNCHANGED <<rules, history, activeEffects>>
                ELSE LET lastChange == history[Len(history)]
                     IN  /\ lastResult'.returned = TRUE
                         /\ history' = SubSeq(history, 1, Len(history) - 1)
                         /\ rules' = [rules EXCEPT
                                         ![lastChange.ruleId] = lastChange.previousValue]
                         /\ \A r \in DOMAIN rules \ {lastChange.ruleId} :
                               rules'[r] = rules[r]]_vars
    /\ [](LET undone == UndoAll(Manager)
          IN  undone.rules = DefaultRules /\ undone.history = <<>>)

\* as many undoLastChange calls as changes have brought back the table of
\* the constructor
C19_Witness ==
    /\ lastResult.call = "undoLastChange"
    /\ lastResult.returned = TRUE
    /\ history = <<>>
    /\ rules = DefaultRules

\* C20: after reset(), whatever the state it is called in, every rule has its
\* default value (FRIEND_IS_GOAL true, every other rule false), the keys of
\* the table are those of the constructor, the history is empty, so that an
\* undoLastChange called next returns false, and 'rulesReset' was emitted.
C20_ResetRestoresDefaults ==
    [][Called("reset", <<>>)
          => /\ DOMAIN rules' = DOMAIN DefaultRules
             /\ \A r \in DOMAIN rules' : rules'[r] = (r = "FRIEND_IS_GOAL")
             /\ history' = <<>>
             /\ undoLastChange([rules |-> rules', history |-> history',
                                activeEffects |-> activeEffects']).changed = FALSE
             /\ \E i \in 1..Len(lastResult'.events) :
                   lastResult'.events[i].name = "rulesReset"]_vars

\* reset has just returned
C20_Witness ==
    /\ lastResult.call = "reset"
    /\ lastResult.events = <<RulesReset>>
    /\ rules = DefaultRules
    /\ history = <<>>
    /\ activeEffects = {}

(***************************************************************************)
(* Claims about rule effects on the walls, checked under Spec (C21)         *)
(***************************************************************************)
\* the delayed call t applies an effect that turns an inactive rule on
Activates(t) == t.effect.value /\ ~isRuleActive(t.effect.ruleId)

\* C21: shuffle and transform rules are edge-triggered.  When the riddle
\* effect path (UIManager.applyRuleEffect) activates a <TYPE>_SHUFFLE rule the
\* walls are what one shuffleWallsOfType leaves, when it activates an
\* <A>_TO_<B> rule one transformWallType has been started, and an effect that
\* activates nothing (the rule is active already) shuffles and transforms
\* nothing.
C21_ShuffleTransformOncePerActivation ==
    [][\A t \in BagToSet(timers) :
          FireApplyRuleEffect(t)
             => LET ruleId == t.effect.ruleId
                IN  /\ ruleId \in ShuffleRules
                          => IF Activates(t)
                             THEN walls' \in shuffleWallsOfType(walls, ShuffleType(ruleId))
                             ELSE walls' = walls
                    /\ ruleId \in TransformRules
                          => IF Activates(t)
                             THEN wallTweens' =
                                     transformWallType(walls, wallTweens,
                                                       TransformType(ruleId).from,
                                                       TransformType(ruleId).to)
                             ELSE wallTweens' = wallTweens]_vars

(***************************************************************************)
(* Claims about GridPhysics under rule changes, checked under SpecTypes    *)
(* (C22)                                                                   *)
(***************************************************************************)
\* the cell holds a wall and every wall in it has another type than t
OtherTypeWallAt(c, t) ==
    /\ \E i \in 1..Len(walls) : walls[i].gridX = c[1] /\ walls[i].gridY = c[2]
    /\ \A i \in 1..Len(walls) :
          (walls[i].gridX = c[1] /\ walls[i].gridY = c[2]) => walls[i].type # t

\* only the rule ruleId changes its value in the step
OnlyRuleChanged(ruleId) ==
    /\ rules'[ruleId] # rules[ruleId]
    /\ \A r \in DOMAIN rules \ {ruleId} : rules'[r] = rules[r]
    /\ UNCHANGED <<physVars, socketVars>>

\* C22: type isolation.  For wall types A # B, a change of A_IS_AIR with all
\* other state equal changes neither the outcome of canMoveTo nor that of
\* canPush for a target cell that holds a wall of type B.
C22_TypeIsolation ==
    [][\A t \in {"brick", "wood", "iron"} :
          OnlyRuleChanged(TypeAirRule(t))
             => \A c \in Cells :
                   OtherTypeWallAt(c, t)
                      => \A d \in Directions :
                            /\ \A e \in EntityTypes :
                                  canMoveTo(c[1] - d[1], c[2] - d[2], c[1], c[2], e)'
                                     = canMoveTo(c[1] - d[1], c[2] - d[2], c[1], c[2], e)
                            /\ canPush(c[1] - d[1], c[2] - d[2], d[1], d[2])'
                                  = canPush(c[1] - d[1], c[2] - d[2], d[1], d[2])]_vars

\* WOOD_IS_AIR has been turned on with an iron wall next to the player, who
\* is neither a ghost nor helped by WALL_IS_AIR
C22_Witness ==
    /\ Len(history) > 0
    /\ history[Len(history)].ruleId = "WOOD_IS_AIR"
    /\ rules["WOOD_IS_AIR"]
    /\ ~rules["WALL_IS_AIR"] /\ ~rules["PLAYER_IS_GHOST"]
    /\ \E i \in 1..Len(walls) :
          /\ walls[i].type = "iron"
          /\ walls[i].gridX = player.gridX + 1
          /\ walls[i].gridY = player.gridY

(***************************************************************************)
(* Claims about the queries of GridPhysics, checked under SpecPhysics (C23) *)
(***************************************************************************)
\* C23: canMoveTo and canPush are pure queries: whatever the outcome, a call
\* leaves the player's cell, the walls, the gates with their isOpen, the
\* pushables, the sockets, the special walls, every rule value and the rule
\* history as they were.
C23_QueriesArePure ==
    [][(\/ \E d \in Directions : QueryMove(d)
        \/ \E i \in 1..Len(pushables), d \in Directions : QueryPush(i, d))
          => /\ player' = player
             /\ walls' = walls
             /\ gates' = gates
             /\ pushables' = pushables
             /\ friend' = friend
             /\ sockets' = sockets
             /\ specialWalls' = specialWalls
             /\ specialRegistry' = specialRegistry
             /\ rules' = rules
             /\ history' = history]_vars

\* canMoveTo has answered with a gate outcome and the closed gate is in place
C23_Witness ==
    /\ lastResult.call = "canMoveTo"
    /\ lastResult.move.action = "gate"
    /\ lastResult.move.gate # 0
    /\ ~gates[lastResult.move.gate].isOpen

(***************************************************************************)
(* Claims about the level session, checked under Spec (C24 - C27, C29)      *)
(***************************************************************************)
\* C24: in every reachable state of a level session the player, every
\* pushable and every wall, shuffled or not, is on a cell of the grid:
\* 0 <= x < gridWidth and 0 <= y < gridHeight, whatever rules are active,
\* PLAYER_IS_GHOST and WALL_IS_AIR included.
C24_EntitiesStayInGrid ==
    /\ InBounds(player.gridX, player.gridY)
    /\ \A i \in 1..Len(pushables) : InBounds(pushables[i].gridX, pushables[i].gridY)
    /\ \A i \in 1..Len(walls) : InBounds(walls[i].gridX, walls[i].gridY)

\* a ghost player stands in a wall on the west border of the grid
C24_Witness ==
    /\ isRuleActive("PLAYER_IS_GHOST")
    /\ player.gridX = 0
    /\ \E i \in 1..Len(walls) :
          walls[i].gridX = player.gridX /\ walls[i].gridY = player.gridY

\* the cell of an entity
CellOf(e) == <<e.gridX, e.gridY>>

\* C25: while a move or push is animating (Player.isMoving, from the start of
\* executePush or moveTo to the end of the player's move tween) input is
\* ignored: no step is a tryMove that resolves a move, the player's cell
\* changes only by the moveTo that follows the push under way, a pushable's
\* cell only by the completion of that push, no other push starts and no
\* riddle is shown.
C25_NoInputWhileMoving ==
    [][player.isMoving
          => /\ ~ \E d \in Directions : TryMove(d)
             /\ CellOf(player') # CellOf(player)
                   => /\ push.stage = "resolved"
                      /\ CellOf(player') = <<push.newX, push.newY>>
             /\ \A i \in 1..Len(pushables) :
                   CellOf(pushables'[i]) # CellOf(pushables[i])
                      => /\ push.stage = "tween"
                         /\ i = push.pushable
                         /\ CellOf(pushables'[i]) = <<push.targetX, push.targetY>>
             /\ push'.stage = "tween" => push.stage = "tween"
             /\ ui'.isModalOpen => ui.isModalOpen]_vars

\* a push is animating while some direction would be resolved as a move
C25_Witness ==
    /\ player.isMoving
    /\ push.stage = "tween"
    /\ \E d \in Directions : PlayerQuery(d).action = "move"

\* nothing the scene places on the grid is in the cell
NothingAt(c) ==
    /\ \A i \in 1..Len(walls) : CellOf(walls[i]) # c
    /\ \A i \in 1..Len(specialWalls) : CellOf(specialWalls[i]) # c
    /\ \A i \in 1..Len(gates) : CellOf(gates[i]) # c
    /\ CellOf(player) # c
    /\ \A i \in 1..Len(friend) : CellOf(friend[i]) # c
    /\ \A i \in 1..Len(pushables) : CellOf(pushables[i]) # c
    /\ \A i \in 1..Len(sockets) : CellOf(sockets[i]) # c

\* the wall types whose shuffle can start now: those of a shuffle rule that a
\* pending applyRuleEffect call carries or that the latest history record,
\* the one undoLastChange reverts, names
ShuffleDue ==
    {ShuffleType(r) : r \in
        ({toUpperCase(t.effect.ruleId) :
             t \in {u \in BagToSet(timers) : u.kind = "applyRuleEffect"}}
         \cup {history[k].ruleId : k \in {Len(history)} \ {0}})
        \cap ShuffleRules}

\* C26: whatever shuffles have happened, no two walls are in one cell; and a
\* shuffleWallsOfType that starts now puts every wall it relocates on a cell
\* that holds no wall, special wall, gate, player, friend, pushable or
\* socket now, and no two walls on the same cell.
C26_ShuffleKeepsWallsApart ==
    /\ \A i, j \in 1..Len(walls) : i # j => CellOf(walls[i]) # CellOf(walls[j])
    /\ \A wallType \in ShuffleDue :
          \A ws \in shuffleWallsOfType(walls, wallType) :
             \A i \in 1..Len(ws) :
                CellOf(ws[i]) # CellOf(walls[i])
                   => /\ NothingAt(CellOf(ws[i]))
                      /\ \A j \in 1..Len(ws) : j # i => CellOf(ws[j]) # CellOf(ws[i])

\* BRICK_SHUFFLE is active and a brick wall is no longer on the cell the
\* level gave it
C26_Witness ==
    /\ isRuleActive("BRICK_SHUFFLE")
    /\ Len(walls) = Len(LevelShuffle.walls)
    /\ \E i \in 1..Len(walls) :
          /\ walls[i].type = "brick"
          /\ CellOf(walls[i]) # CellOf(LevelShuffle.walls[i])

\* C27: gate opening is irreversible.  A gate whose isOpen is true keeps it
\* for the rest of the session; the step that activates GATE_IS_OPEN leaves
\* every gate open; and the step that deactivates it, an undoLastChange
\* included, leaves every gate open and its cell free of a blocking gate.
C27_GatesNeverClose ==
    [][/\ \A g \in 1..Len(gates) : gates[g].isOpen => gates'[g].isOpen
       /\ (~isRuleActive("GATE_IS_OPEN") /\ isRuleActive("GATE_IS_OPEN")')
             => \A g \in 1..Len(gates) : gates'[g].isOpen
       /\ (isRuleActive("GATE_IS_OPEN") /\ ~isRuleActive("GATE_IS_OPEN")')
             => \A g \in 1..Len(gates) :
                   /\ gates'[g].isOpen
                   /\ getGateAt(gates[g].gridX, gates[g].gridY)' = 0]_vars

\* GATE_IS_OPEN has been activated and undone; the barrier gate, which no
\* riddle opens, is open
C27_Witness ==
    /\ ~isRuleActive("GATE_IS_OPEN")
    /\ history = <<>>
    /\ "GATE_IS_OPEN" \in activeEffects
    /\ \E g \in 1..Len(gates) : gates[g].type = "barrier" /\ gates[g].isOpen

(***************************************************************************)
(* Claims about RuleManager, checked under SpecRules (C28)                  *)
(***************************************************************************)
\* the records of the history that are about the rule
RecordsOf(r) == {i \in 1..Len(history) : history[i].ruleId = r}

\* C28: after any sequence of setRule, toggleRule, applyRiddleEffect,
\* undoLastChange and reset calls the table agrees with the history: the
\* value of every rule is the newValue of the latest record about it, or its
\* default when no record is about it; and in every record previousValue
\* differs from newValue.
C28_TableAgreesWithHistory ==
    /\ \A r \in DOMAIN rules :
          rules[r] = IF RecordsOf(r) = {} THEN (r = "FRIEND_IS_GOAL")
                     ELSE history[CHOOSE i \in RecordsOf(r) :
                                     \A j \in RecordsOf(r) : j <= i].newValue
    /\ \A i \in 1..Len(history) : history[i].previousValue # history[i].newValue

\* a toggleRule has just added the second record about one rule
C28_Witness ==
    /\ lastResult.call = "toggleRule"
    /\ Len(history) = 2
    /\ history[1].ruleId = history[2].ruleId
    /\ rules[history[2].ruleId] = history[2].newValue

\* the effect of the riddle of gate g
EffectOf(g) == riddleEffect(riddleFor(gates[g]))

\* the step starts a close tween that carries a rule effect
CapturesEffect ==
    \E t \in BagToSet(tweens') :
        t.effectToApply # NoEffect /\ CopiesIn(t, tweens') > CopiesIn(t, tweens)

\* the step completes a close tween while g is the current gate and g opens
ClosedOpen(g) == Opens(g) /\ SolvedClose(g)

\* C29: for each riddle shown at a gate, under every order of answer clicks,
\* ESC and the delayed closes: the effect of a riddle is captured by one close
\* only, a close that is to open the gate (so the effect reaches the rule
\* store at most once and only with the gate opened by the close), and a
\* delayed hideModal(true) opens the current gate only if an answer was
\* clicked on the riddle shown for it
C29_EffectOnceAndOnlyWithOpenedGate ==
    [][/\ CapturesEffect =>
             /\ ui.pendingRuleEffect # NoEffect
             /\ ui'.pendingRuleEffect = NoEffect
             /\ \E t \in BagToSet(tweens') :
                    /\ t.answeredCorrectly
                    /\ t.effectToApply = ui.pendingRuleEffect
                    /\ tweens' = Put(tweens, t)
       /\ (ui'.pendingRuleEffect # NoEffect /\ ui'.pendingRuleEffect # ui.pendingRuleEffect)
             => ui.buttonsEnabled /\ ~ui'.buttonsEnabled
       /\ \A g \in 1..Len(gates) : ClosedOpen(g) => ~ui.buttonsEnabled]_vars

\* an answer was clicked on the riddle of the rule gate and ESC closed the
\* modal before the delayed close: the brick rule is active, the rule gate is
\* still closed and the barrier gate, whose riddle got no answer, has been
\* opened by that delayed close
C29_StaleCloseReached ==
    /\ isRuleActive("BRICK_IS_AIR")
    /\ ~gates[1].isOpen
    /\ gates[2].isOpen
    /\ ui.currentLives = maxLives

\* the step is a tryMove that returned true: a plain move, a push, or a push
\* that the pushable rejected
Accepted ==
    /\ ~player.isMoving
    /\ player'.isMoving

\* C30: every accepted move or push eventually finishes.  With every started
\* tween completing, Player.isMoving, once true, becomes false again; a
\* tryMove whose push the pushable rejects (already moving) leaves the player
\* on its cell, also when the catch-handler has run
C30_MoveEventuallyFinishes ==
    /\ player.isMoving ~> ~player.isMoving
    /\ [][/\ (Accepted /\ push'.stage = "rejected")
                => CellOf(player') = CellOf(player)
          /\ push.stage = "rejected"
                => CellOf(player') = CellOf(player) /\ ~player'.isMoving]_vars

\* the player pushed a pushable that another caller's push is moving: the
\* push was rejected and the catch-handler is about to run
C30_Witness ==
    /\ player.isMoving
    /\ push.stage = "rejected"
    /\ otherPush # NoOtherPush
====
